---------------------------- MODULE Spec2Model ----------------------------
(***************************************************************************)
(* A model of the hubspot-bff service (src/server.js): the vehicle record  *)
(* codec that stores vehicles as CRM notes (POST /vehicles/sync,           *)
(* GET /vehicles, /api/hubspot/vehicles) and the refill task status        *)
(* mapping of GET /refills/history.                                        *)
(*                                                                         *)
(* Text is modelled character by character: a string is a sequence of      *)
(* one-character strings, so that JSON.stringify, JSON.parse, trim,        *)
(* toLowerCase, startsWith, includes and the subject regular expression    *)
(* are computed the way the JavaScript runtime computes them.              *)
(***************************************************************************)
EXTENDS Integers, Sequences, FiniteSets, TLC

(***************************************************************************)
(* Characters and strings                                                  *)
(***************************************************************************)

\* White space as String.prototype.trim, the regex class \s and JSON see it
\* (over the characters used here).
WhiteSpace == {" ", "\n", "\t", "\r"}

\* Line terminators: the characters the regex "." does not match.
LineTerminators == {"\n", "\r"}

DigitChars == <<"0", "1", "2", "3", "4", "5", "6", "7", "8", "9">>

IsDigit(c) == \E d \in 1..10 : DigitChars[d] = c

DigitValue(c) == (CHOOSE d \in 1..10 : DigitChars[d] = c) - 1

UpperChars ==
    <<"A", "B", "C", "D", "E", "F", "G", "H", "I", "J", "K", "L", "M",
      "N", "O", "P", "Q", "R", "S", "T", "U", "V", "W", "X", "Y", "Z">>

LowerChars ==
    <<"a", "b", "c", "d", "e", "f", "g", "h", "i", "j", "k", "l", "m",
      "n", "o", "p", "q", "r", "s", "t", "u", "v", "w", "x", "y", "z">>

\* String.prototype.toLowerCase
toLowerCase(s) ==
    [i \in 1..Len(s) |->
        IF \E k \in 1..26 : UpperChars[k] = s[i]
        THEN LowerChars[CHOOSE k \in 1..26 : UpperChars[k] = s[i]]
        ELSE s[i]]

\* String.prototype.toUpperCase
toUpperCase(s) ==
    [i \in 1..Len(s) |->
        IF \E k \in 1..26 : LowerChars[k] = s[i]
        THEN UpperChars[CHOOSE k \in 1..26 : LowerChars[k] = s[i]]
        ELSE s[i]]

RECURSIVE trimStart(_)
trimStart(s) ==
    IF s # <<>> /\ Head(s) \in WhiteSpace THEN trimStart(Tail(s)) ELSE s

RECURSIVE trimEnd(_)
trimEnd(s) ==
    IF s # <<>> /\ s[Len(s)] \in WhiteSpace
    THEN trimEnd(SubSeq(s, 1, Len(s) - 1))
    ELSE s

\* String.prototype.trim
trim(s) == trimEnd(trimStart(s))

\* Whether p occurs in s at index i (1-based).
OccursAt(s, i, p) ==
    /\ i >= 1
    /\ i + Len(p) - 1 <= Len(s)
    /\ \A k \in 1..Len(p) : s[i + k - 1] = p[k]

\* String.prototype.startsWith
startsWith(s, p) == OccursAt(s, 1, p)

\* String.prototype.includes
includes(s, p) == \E i \in 1..(Len(s) + 1) : OccursAt(s, i, p)

(***************************************************************************)
(* JavaScript values.  Every value has the same shape, so that values of   *)
(* different types can be compared: t is the type, s the characters of a   *)
(* string, n a number (or 0/1 for a boolean), a the elements of an array,  *)
(* o the properties of an object in insertion order.                       *)
(***************************************************************************)

Val(t, s, n, a, o) == [t |-> t, s |-> s, n |-> n, a |-> a, o |-> o]

Undefined == Val("undefined", <<>>, 0, <<>>, <<>>)

Null == Val("null", <<>>, 0, <<>>, <<>>)

Str(s) == Val("string", s, 0, <<>>, <<>>)

Num(n) == Val("number", <<>>, n, <<>>, <<>>)

Bool(b) == Val("boolean", <<>>, IF b THEN 1 ELSE 0, <<>>, <<>>)

Arr(a) == Val("array", <<>>, 0, a, <<>>)

Obj(o) == Val("object", <<>>, 0, <<>>, o)

Prop(k, v) == [k |-> k, v |-> v]

\* Object.prototype.hasOwnProperty.call(obj, key), for the keys used here
\* (none of them is an own property of a string, a number or an array).
hasOwnProperty(obj, key) ==
    /\ obj.t = "object"
    /\ \E i \in 1..Len(obj.o) : obj.o[i].k = key

\* obj[key] on a value that is neither null nor undefined.
Get(obj, key) ==
    IF hasOwnProperty(obj, key)
    THEN obj.o[CHOOSE i \in 1..Len(obj.o) : obj.o[i].k = key].v
    ELSE Undefined

\* obj[key] = v on the property list o: an existing key keeps its place.
SetProp(o, key, v) ==
    IF \E i \in 1..Len(o) : o[i].k = key
    THEN [i \in 1..Len(o) |-> IF o[i].k = key THEN Prop(key, v) ELSE o[i]]
    ELSE Append(o, Prop(key, v))

\* v == null (null or undefined): the test of "??", "?." and "!= null".
IsNullish(v) == v.t \in {"undefined", "null"}

\* ToBoolean: what "||" and "!" test.
Truthy(v) ==
    CASE v.t \in {"undefined", "null"} -> FALSE
      [] v.t = "string" -> v.s # <<>>
      [] v.t \in {"number", "boolean"} -> v.n # 0
      [] OTHER -> TRUE

\* a ?? b
Coalesce(a, b) == IF IsNullish(a) THEN b ELSE a

\* a || b
OrElse(a, b) == IF Truthy(a) THEN a ELSE b

RECURSIVE NatToString(_)
NatToString(n) ==
    IF n < 10 THEN <<DigitChars[n + 1]>>
    ELSE NatToString(n \div 10) \o <<DigitChars[(n % 10) + 1]>>

\* Number.prototype.toString for an integer
NumToString(n) == IF n < 0 THEN <<"-">> \o NatToString(0 - n) ELSE NatToString(n)

RECURSIVE ToStringJS(_)
RECURSIVE JoinValues(_)
\* Array.prototype.join(","): null and undefined elements give "".
JoinValues(a) ==
    IF a = <<>> THEN <<>>
    ELSE (IF IsNullish(Head(a)) THEN <<>> ELSE ToStringJS(Head(a)))
         \o (IF Len(a) > 1 THEN <<",">> \o JoinValues(Tail(a)) ELSE <<>>)

\* String(v) and v.toString() for a value that is neither null nor undefined.
ToStringJS(v) ==
    CASE v.t = "string" -> v.s
      [] v.t = "number" -> NumToString(v.n)
      [] v.t = "boolean" -> IF v.n = 1 THEN <<"t", "r", "u", "e">>
                            ELSE <<"f", "a", "l", "s", "e">>
      [] v.t = "array" -> JoinValues(v.a)
      [] v.t = "object" ->
            <<"[", "o", "b", "j", "e", "c", "t", " ",
              "O", "b", "j", "e", "c", "t", "]">>
      [] v.t = "null" -> <<"n", "u", "l", "l">>
      [] OTHER -> <<"u", "n", "d", "e", "f", "i", "n", "e", "d">>

(***************************************************************************)
(* JSON.stringify and JSON.parse, over text as a sequence of characters.   *)
(* Numbers are integers; the escapes are those of the characters used      *)
(* here (quote, backslash, slash, line feed, tab, carriage return).        *)
(***************************************************************************)

RECURSIVE EscapeChars(_)
EscapeChars(s) ==
    IF s = <<>> THEN <<>>
    ELSE (CASE Head(s) = "\"" -> <<"\\", "\"">>
            [] Head(s) = "\\" -> <<"\\", "\\">>
            [] Head(s) = "\n" -> <<"\\", "n">>
            [] Head(s) = "\t" -> <<"\\", "t">>
            [] Head(s) = "\r" -> <<"\\", "r">>
            [] OTHER -> <<Head(s)>>)
         \o EscapeChars(Tail(s))

\* The JSON text of a string: quoted, with its characters escaped.
QuoteJSON(s) == <<"\"">> \o EscapeChars(s) \o <<"\"">>

RECURSIVE JSONstringify(_)
RECURSIVE StringifyElements(_)
RECURSIVE StringifyProps(_, _)

\* The elements of an array: undefined is written as null.
StringifyElements(a) ==
    IF a = <<>> THEN <<>>
    ELSE (IF Head(a).t = "undefined" THEN <<"n", "u", "l", "l">>
          ELSE JSONstringify(Head(a)))
         \o (IF Len(a) > 1 THEN <<",">> \o StringifyElements(Tail(a)) ELSE <<>>)

\* The properties of an object, in insertion order: a property whose value is
\* undefined is left out.
StringifyProps(o, first) ==
    IF o = <<>> THEN <<>>
    ELSE IF Head(o).v.t = "undefined" THEN StringifyProps(Tail(o), first)
    ELSE (IF first THEN <<>> ELSE <<",">>)
         \o QuoteJSON(Head(o).k) \o <<":">> \o JSONstringify(Head(o).v)
         \o StringifyProps(Tail(o), FALSE)

\* JSON.stringify(v) for a value other than undefined.
JSONstringify(v) ==
    CASE v.t = "string" -> QuoteJSON(v.s)
      [] v.t = "number" -> NumToString(v.n)
      [] v.t = "boolean" -> ToStringJS(v)
      [] v.t = "array" -> <<"[">> \o StringifyElements(v.a) \o <<"]">>
      [] v.t = "object" -> <<"{">> \o StringifyProps(v.o, TRUE) \o <<"}">>
      [] OTHER -> <<"n", "u", "l", "l">>

\* The result of a parsing step: ok, the value read and the index after it.
ParseFail == [ok |-> FALSE, v |-> Undefined, i |-> 0]

ParseOk(v, i) == [ok |-> TRUE, v |-> v, i |-> i]

RECURSIVE SkipWhiteSpace(_, _)
SkipWhiteSpace(s, i) ==
    IF i <= Len(s) /\ s[i] \in WhiteSpace THEN SkipWhiteSpace(s, i + 1) ELSE i

\* The characters of a string literal from index i, after its opening quote.
RECURSIVE ParseStringChars(_, _, _)
ParseStringChars(s, i, acc) ==
    IF i > Len(s) THEN ParseFail
    ELSE IF s[i] = "\"" THEN ParseOk(Str(acc), i + 1)
    ELSE IF s[i] = "\\" THEN
        IF i + 1 > Len(s) THEN ParseFail
        ELSE IF s[i + 1] \in {"\"", "\\", "/"}
             THEN ParseStringChars(s, i + 2, Append(acc, s[i + 1]))
        ELSE IF s[i + 1] = "n" THEN ParseStringChars(s, i + 2, Append(acc, "\n"))
        ELSE IF s[i + 1] = "t" THEN ParseStringChars(s, i + 2, Append(acc, "\t"))
        ELSE IF s[i + 1] = "r" THEN ParseStringChars(s, i + 2, Append(acc, "\r"))
        ELSE ParseFail
    ELSE IF s[i] \in {"\n", "\t", "\r"} THEN ParseFail
    ELSE ParseStringChars(s, i + 1, Append(acc, s[i]))

\* The digits of a number from index i; n is the value read so far.
RECURSIVE ParseDigits(_, _, _)
ParseDigits(s, i, n) ==
    IF i <= Len(s) /\ IsDigit(s[i])
    THEN ParseDigits(s, i + 1, 10 * n + DigitValue(s[i]))
    ELSE ParseOk(Num(n), i)

\* An integer: an optional minus sign, then 0 or a digit sequence that does
\* not begin with 0.
ParseNumber(s, i) ==
    LET neg == s[i] = "-"
        j == IF neg THEN i + 1 ELSE i
    IN  IF j > Len(s) \/ ~IsDigit(s[j]) THEN ParseFail
        ELSE IF s[j] = "0" THEN ParseOk(Num(0), j + 1)
        ELSE LET r == ParseDigits(s, j, 0)
             IN  ParseOk(Num(IF neg THEN 0 - r.v.n ELSE r.v.n), r.i)

RECURSIVE ParseValue(_, _)
RECURSIVE ParseElements(_, _, _)
RECURSIVE ParseMembers(_, _, _)

\* The elements of an array from index i, after "[" or ",".
ParseElements(s, i, acc) ==
    LET r == ParseValue(s, i)
        j == SkipWhiteSpace(s, r.i)
    IN  IF ~r.ok \/ j > Len(s) THEN ParseFail
        ELSE IF s[j] = "," THEN ParseElements(s, j + 1, Append(acc, r.v))
        ELSE IF s[j] = "]" THEN ParseOk(Arr(Append(acc, r.v)), j + 1)
        ELSE ParseFail

\* The members of an object from index i0, after "{" or ",": a repeated key
\* keeps its last value.
ParseMembers(s, i0, acc) ==
    LET i == SkipWhiteSpace(s, i0)
    IN  IF i > Len(s) \/ s[i] # "\"" THEN ParseFail
        ELSE
        LET k == ParseStringChars(s, i + 1, <<>>)
            c == SkipWhiteSpace(s, k.i)
        IN  IF ~k.ok \/ c > Len(s) \/ s[c] # ":" THEN ParseFail
            ELSE
            LET r == ParseValue(s, c + 1)
                j == SkipWhiteSpace(s, r.i)
            IN  IF ~r.ok \/ j > Len(s) THEN ParseFail
                ELSE IF s[j] = ","
                     THEN ParseMembers(s, j + 1, SetProp(acc, k.v.s, r.v))
                ELSE IF s[j] = "}"
                     THEN ParseOk(Obj(SetProp(acc, k.v.s, r.v)), j + 1)
                ELSE ParseFail

\* One JSON value from index i0, after optional white space.
ParseValue(s, i0) ==
    LET i == SkipWhiteSpace(s, i0)
    IN  IF i > Len(s) THEN ParseFail
        ELSE IF s[i] = "{" THEN
            LET j == SkipWhiteSpace(s, i + 1)
            IN  IF j <= Len(s) /\ s[j] = "}" THEN ParseOk(Obj(<<>>), j + 1)
                ELSE ParseMembers(s, j, <<>>)
        ELSE IF s[i] = "[" THEN
            LET j == SkipWhiteSpace(s, i + 1)
            IN  IF j <= Len(s) /\ s[j] = "]" THEN ParseOk(Arr(<<>>), j + 1)
                ELSE ParseElements(s, j, <<>>)
        ELSE IF s[i] = "\"" THEN ParseStringChars(s, i + 1, <<>>)
        ELSE IF s[i] = "-" \/ IsDigit(s[i]) THEN ParseNumber(s, i)
        ELSE IF OccursAt(s, i, <<"n", "u", "l", "l">>) THEN ParseOk(Null, i + 4)
        ELSE IF OccursAt(s, i, <<"t", "r", "u", "e">>)
             THEN ParseOk(Bool(TRUE), i + 4)
        ELSE IF OccursAt(s, i, <<"f", "a", "l", "s", "e">>)
             THEN ParseOk(Bool(FALSE), i + 5)
        ELSE ParseFail

\* JSON.parse(text): threw is TRUE for a SyntaxError, otherwise v is the value.
JSONparse(text) ==
    LET r == ParseValue(text, 1)
    IN  IF r.ok /\ SkipWhiteSpace(text, r.i) > Len(text)
        THEN [threw |-> FALSE, v |-> r.v]
        ELSE [threw |-> TRUE, v |-> Undefined]

(***************************************************************************)
(* The vehicle record codec                                                *)
(***************************************************************************)

KeyName == <<"n", "a", "m", "e">>

KeyMake == <<"m", "a", "k", "e">>

KeyModel == <<"m", "o", "d", "e", "l">>

KeyYear == <<"y", "e", "a", "r">>

KeyColor == <<"c", "o", "l", "o", "r">>

KeyPlate == <<"p", "l", "a", "t", "e">>

KeyLicensePlate ==
    <<"l", "i", "c", "e", "n", "s", "e", "P", "l", "a", "t", "e">>

KeyType == <<"t", "y", "p", "e">>

EmptyString == Str(<<>>)

\* The result of a function that may throw.
Threw == [threw |-> TRUE, v |-> Undefined]

Returned(v) == [threw |-> FALSE, v |-> v]

\* parts.join(" ") on a sequence of strings
RECURSIVE JoinWithSpace(_)
JoinWithSpace(parts) ==
    IF parts = <<>> THEN <<>>
    ELSE IF Len(parts) = 1 THEN parts[1]
    ELSE parts[1] \o <<" ">> \o JoinWithSpace(Tail(parts))

\* The loop of normalizeVehicleProps: result[key] = String(obj[key]) for each
\* key that obj owns with a value that is neither null nor undefined.
RECURSIVE CopyOwnProps(_, _, _)
CopyOwnProps(obj, keys, result) ==
    IF keys = <<>> THEN result
    ELSE LET key == Head(keys)
             val == Get(obj, key)
         IN  CopyOwnProps(obj, Tail(keys),
                 IF hasOwnProperty(obj, key) /\ ~IsNullish(val)
                 THEN SetProp(result, key, Str(ToStringJS(val)))
                 ELSE result)

\* A mutant of normalizeVehicleProps: the derived name has the make before
\* the year.
normalizeVehiclePropsMakeFirst(obj, now) ==
    IF IsNullish(obj) THEN Threw
    ELSE
    LET keys == <<KeyName, KeyMake, KeyModel, KeyYear, KeyColor, KeyPlate>>
        result == Obj(CopyOwnProps(obj, keys, <<>>))
        parts == SelectSeq(<<Get(result, KeyMake), Get(result, KeyYear),
                             Get(result, KeyModel)>>,
                           LAMBDA x : Truthy(x))
        name == IF Len(parts) > 0
                THEN JoinWithSpace([i \in 1..Len(parts) |-> parts[i].s])
                ELSE <<"V", "e", "h", "i", "c", "l", "e", " ">> \o NumToString(now)
    IN  Returned(IF ~Truthy(Get(result, KeyName))
                 THEN Obj(SetProp(result.o, KeyName, Str(name)))
                 ELSE result)

\* normalizeVehicleProps(obj), with now the value of Date.now().
\* hasOwnProperty.call(obj, key) throws a TypeError when obj is null or
\* undefined.
normalizeVehicleProps(obj, now) ==
    IF IsNullish(obj) THEN Threw
    ELSE
    LET keys == <<KeyName, KeyMake, KeyModel, KeyYear, KeyColor, KeyPlate>>
        result == Obj(CopyOwnProps(obj, keys, <<>>))
        parts == SelectSeq(<<Get(result, KeyYear), Get(result, KeyMake),
                             Get(result, KeyModel)>>,
                           LAMBDA x : Truthy(x))
        name == IF Len(parts) > 0
                THEN JoinWithSpace([i \in 1..Len(parts) |-> parts[i].s])
                ELSE <<"V", "e", "h", "i", "c", "l", "e", " ">> \o NumToString(now)
    IN  Returned(IF ~Truthy(Get(result, KeyName))
                 THEN Obj(SetProp(result.o, KeyName, Str(name)))
                 ELSE result)

\* A mutant of noteBody: the plate is written under the key licensePlate.
noteBodyWrongPlateKey(props) ==
    Obj(<<Prop(KeyName, Get(props, KeyName)),
          Prop(KeyMake, OrElse(Get(props, KeyMake), EmptyString)),
          Prop(KeyModel, OrElse(Get(props, KeyModel), EmptyString)),
          Prop(KeyYear, OrElse(Get(props, KeyYear), EmptyString)),
          Prop(KeyColor, OrElse(Get(props, KeyColor), EmptyString)),
          Prop(KeyLicensePlate, OrElse(Get(props, KeyPlate), EmptyString))>>)

\* The noteBody object POST /vehicles/sync builds from the normalized props.
noteBody(props) ==
    Obj(<<Prop(KeyName, Get(props, KeyName)),
          Prop(KeyMake, OrElse(Get(props, KeyMake), EmptyString)),
          Prop(KeyModel, OrElse(Get(props, KeyModel), EmptyString)),
          Prop(KeyYear, OrElse(Get(props, KeyYear), EmptyString)),
          Prop(KeyColor, OrElse(Get(props, KeyColor), EmptyString)),
          Prop(KeyPlate, OrElse(Get(props, KeyPlate), EmptyString))>>)

\* createNote(body): the hs_note_body it posts.
createNoteBody(body) ==
    IF body.t = "string" THEN body.s ELSE JSONstringify(body)

\* The note body POST /api/hubspot/vehicles/sync builds for vehicle v; reading
\* v.make throws a TypeError when v is null or undefined.
apiNoteBody(v) ==
    IF IsNullish(v) THEN Threw
    ELSE Returned(Str(JSONstringify(
        Obj(<<Prop(KeyType, Str(<<"v", "e", "h", "i", "c", "l", "e">>)),
              Prop(KeyMake, OrElse(Get(v, KeyMake), EmptyString)),
              Prop(KeyModel, OrElse(Get(v, KeyModel), EmptyString)),
              Prop(KeyYear, OrElse(Get(v, KeyYear), EmptyString)),
              Prop(KeyColor, OrElse(Get(v, KeyColor), EmptyString)),
              Prop(KeyLicensePlate,
                   OrElse(Get(v, KeyLicensePlate), EmptyString))>>))))

\* A note as the remote store returns it: id and properties.hs_note_body.
Note(id, body) == [id |-> id, hs_note_body |-> body]

\* The body of the loop of parseVehiclesFromNotes for one note: the vehicles
\* it pushes (none when the body is empty, when JSON.parse throws or when
\* reading a property of null throws).
parseVehicleFromNote(note) ==
    LET body == OrElse(note.hs_note_body, EmptyString)
        parsed == JSONparse(ToStringJS(body))
        obj == parsed.v
        field(key) == ToStringJS(Coalesce(Get(obj, key), EmptyString))
    IN  IF ~Truthy(body) THEN <<>>
        ELSE IF parsed.threw \/ IsNullish(obj) THEN <<>>
        ELSE << [id |-> note.id,
                 make |-> field(KeyMake),
                 model |-> field(KeyModel),
                 year |-> field(KeyYear),
                 color |-> field(KeyColor),
                 plate |-> field(KeyPlate),
                 name |-> field(KeyName)] >>

RECURSIVE parseVehiclesFromNotes(_)
parseVehiclesFromNotes(notes) ==
    IF notes = <<>> THEN <<>>
    ELSE parseVehicleFromNote(Head(notes)) \o parseVehiclesFromNotes(Tail(notes))

\* The body of the decode loop of GET /api/hubspot/vehicles for one note.
\* obj?.type?.toLowerCase() throws when type is neither a string nor nullish;
\* the catch ignores it.
apiVehicleFromNote(n) ==
    LET parsed == JSONparse(ToStringJS(OrElse(n.hs_note_body, EmptyString)))
        obj == parsed.v
        type == IF IsNullish(obj) THEN Undefined ELSE Get(obj, KeyType)
    IN  IF parsed.threw THEN <<>>
        ELSE IF IsNullish(type) THEN <<>>
        ELSE IF type.t # "string" THEN <<>>
        ELSE IF toLowerCase(type.s) # <<"v", "e", "h", "i", "c", "l", "e">>
             THEN <<>>
        ELSE << [make |-> OrElse(Get(obj, KeyMake), EmptyString),
                 model |-> OrElse(Get(obj, KeyModel), EmptyString),
                 year |-> OrElse(Get(obj, KeyYear), EmptyString),
                 color |-> OrElse(Get(obj, KeyColor), EmptyString),
                 licensePlate |->
                     OrElse(Get(obj, KeyLicensePlate), EmptyString)] >>

RECURSIVE apiVehiclesFromNotes(_)
apiVehiclesFromNotes(notes) ==
    IF notes = <<>> THEN <<>>
    ELSE apiVehicleFromNote(Head(notes)) \o apiVehiclesFromNotes(Tail(notes))

(***************************************************************************)
(* State                                                                   *)
(***************************************************************************)

VARIABLES
    cStage,       \* "start", "stored" (a note is in the store), "read"
    cWriter,      \* "none", "vehicles_sync", "api_sync", "external"
    cInput,       \* the vehicle of the request, or the value an external author wrote
    cWrap,        \* how an external author wrapped the value: see WrapText
    cNow,         \* the value Date.now() returned to the writer
    cNote,        \* the note in the remote store
    cReader,      \* "none", "vehicles", "api"
    cVehicles,    \* the vehicles GET /vehicles decoded
    cApiVehicles  \* the vehicles GET /api/hubspot/vehicles decoded

codecVars ==
    <<cStage, cWriter, cInput, cWrap, cNow, cNote, cReader, cVehicles,
      cApiVehicles>>

VARIABLES
    hTasks,   \* the tasks of the remote store, in listing order
    hResp     \* the response of the last GET /refills/history

historyVars == <<hTasks, hResp>>

VARIABLES
    vNotes,   \* the notes of the remote store with the contact of each
    vReq,     \* the last request for the vehicles of a contact
    vResp     \* the response to it

vehicleVars == <<vNotes, vReq, vResp>>

VARIABLES
    sStore,   \* the notes of the remote store: id, body, contact (0: none)
    sNextId,  \* the id the remote store gives to the next note
    sReq,     \* the vehicle sync request in progress, or the last one
    sResp     \* the response to it

syncVars == <<sStore, sNextId, sReq, sResp>>

VARIABLES
    rBooked,  \* the bookings answered 201: task, email, updated since,
              \* canceled by the last update
    rCreated, \* the number of tasks POST /refills/book has created
    rResp     \* the response of the last POST /refills/book or /refills/update

refillVars == <<rBooked, rCreated, rResp>>

VARIABLES
    kContacts, \* the contacts of the remote store: id, email
    kReq       \* the contact upsert requests: position, search result, last
               \* remote call, whether the email existed at that call, answer

contactVars == <<kContacts, kReq>>

VARIABLES
    deviceTokensByEmail, \* the map from email to its set of device tokens
    pPrev,               \* the map before the last POST /push/register
    pLog                 \* the POST /push/register requests and their answers

pushVars == <<deviceTokensByEmail, pPrev, pLog>>

VARIABLES
    truckLocation, \* the stored truck location, null before the first one
    tPrev,         \* the truck location before the last request
    tAccepted,     \* the body of the last accepted POST /truck/location
    tCount,        \* the number of POST /truck/location requests so far
    tResp          \* the last request and its answer

truckVars == <<truckLocation, tPrev, tAccepted, tCount, tResp>>

vars ==
    <<codecVars, historyVars, vehicleVars, syncVars, refillVars, contactVars,
      pushVars, truckVars>>

(***************************************************************************)
(* The codec as a pipeline over one note: a writer stores a note body      *)
(* (POST /vehicles/sync, POST /api/hubspot/vehicles/sync, or another       *)
(* author of CRM notes), then a reader decodes it (GET /vehicles,          *)
(* GET /api/hubspot/vehicles).                                             *)
(***************************************************************************)

\* An object with the given properties; a property given as undefined is absent.
MkObject(props) == Obj(SelectSeq(props, LAMBDA p : p.v.t # "undefined"))

\* The values Date.now() may return.
NowValues == {41, 42}

\* The vehicles a client may send to POST /vehicles/sync.
VehicleInputs ==
    { MkObject(<<Prop(KeyName, nm), Prop(KeyMake, mk), Prop(KeyModel, md),
                 Prop(KeyYear, yr), Prop(KeyColor, cl), Prop(KeyPlate, pl)>>) :
        nm \in {Undefined, EmptyString, Str(<<"N">>)},
        mk \in {Undefined, Str(<<"H">>), Str(<<" ", "H">>)},
        md \in {Undefined, Null, Str(<<"C">>)},
        yr \in {Undefined, EmptyString, Str(<<"7">>)},
        cl \in {Undefined, Str(<<"r">>), Str(<<"\"", "\\">>)},
        pl \in {Undefined, Str(<<"P">>)} }

\* The vehicles a client may send to POST /api/hubspot/vehicles/sync.
ApiVehicleInputs ==
    { MkObject(<<Prop(KeyMake, mk), Prop(KeyModel, md), Prop(KeyYear, yr),
                 Prop(KeyPlate, pl), Prop(KeyLicensePlate, lp)>>) :
        mk \in {Undefined, Str(<<"K">>)},
        md \in {Undefined, Str(<<"S">>)},
        yr \in {Undefined, Str(<<"7">>), Num(7)},
        pl \in {Undefined, Str(<<"P">>)},
        lp \in {Undefined, Str(<<"P">>)} }

\* Record-like objects other authors may have stored: with or without the
\* type tag, with the plate under either key.
ExternalObjects ==
    { MkObject(<<Prop(KeyType, ty), Prop(KeyMake, mk), Prop(KeyModel, md),
                 Prop(KeyColor, cl), Prop(KeyPlate, pl),
                 Prop(KeyLicensePlate, lp)>>) :
        ty \in {Undefined, Str(<<"v", "e", "h", "i", "c", "l", "e">>),
                Str(<<"V", "e", "h", "i", "c", "l", "e">>), Num(5)},
        mk \in {Undefined, Str(<<"K">>)},
        md \in {Undefined, Str(<<"S">>)},
        cl \in {Undefined, Str(<<"r">>)},
        pl \in {Undefined, EmptyString, Str(<<"P">>)},
        lp \in {Undefined, EmptyString, Str(<<"P">>)} }

RecordAB == MkObject(<<Prop(KeyMake, Str(<<"A">>)), Prop(KeyModel, Str(<<"B">>))>>)

RecordCD == MkObject(<<Prop(KeyMake, Str(<<"C">>)), Prop(KeyModel, Str(<<"D">>))>>)

TaggedAB ==
    MkObject(<<Prop(KeyType, Str(<<"v", "e", "h", "i", "c", "l", "e">>)),
               Prop(KeyMake, Str(<<"A">>)), Prop(KeyModel, Str(<<"B">>))>>)

ColorOnly == MkObject(<<Prop(KeyColor, Str(<<"r">>))>>)

\* JSON values that are not one record: scalars and arrays.
ExternalOthers ==
    { Null, Num(5), Num(0), Bool(TRUE), Str(<<"a", "b">>),
      Arr(<<>>), Arr(<<RecordAB>>), Arr(<<RecordAB, RecordCD>>),
      Arr(<<RecordAB, ColorOnly>>), Arr(<<TaggedAB, TaggedAB>>) }

\* Note bodies that are no JSON at all.
ExternalTexts ==
    { <<>>, <<"n", "o", "p", "e">>, <<"{">>, <<"<", "p", ">", "<", "/", "p", ">">> }

\* The text an external author stored for value v: its JSON, its JSON inside
\* an HTML paragraph, its JSON after a prose prefix, or (v a string) v as is.
WrapText(wrap, v) ==
    CASE wrap = "json" -> JSONstringify(v)
      [] wrap = "html" ->
            <<"<", "p", ">">> \o JSONstringify(v) \o <<"<", "/", "p", ">">>
      [] wrap = "prose" -> <<"C", "a", "r", ":", " ">> \o JSONstringify(v)
      [] OTHER -> v.s

\* The codec pipeline leaves the rest of the state alone.
CodecOnly ==
    UNCHANGED <<historyVars, vehicleVars, syncVars, refillVars, contactVars,
               pushVars, truckVars>>

CodecInit ==
    /\ cStage = "start"
    /\ cWriter = "none"
    /\ cInput = Undefined
    /\ cWrap = "json"
    /\ cNow = 0
    /\ cNote = Note(0, Null)
    /\ cReader = "none"
    /\ cVehicles = <<>>
    /\ cApiVehicles = <<>>

\* POST /vehicles/sync for one vehicle v: the note it creates.
VehiclesSyncNote(v, now) ==
    /\ cStage = "start"
    /\ LET props == normalizeVehicleProps(v, now)
       IN  /\ ~props.threw
           /\ cNote' = Note(1, Str(createNoteBody(noteBody(props.v))))
    /\ cStage' = "stored"
    /\ cWriter' = "vehicles_sync"
    /\ cInput' = v
    /\ cNow' = now
    /\ UNCHANGED <<cWrap, cReader, cVehicles, cApiVehicles>>
    /\ CodecOnly

\* POST /api/hubspot/vehicles/sync for one vehicle v: the note it creates.
ApiVehiclesSyncNote(v) ==
    /\ cStage = "start"
    /\ LET body == apiNoteBody(v)
       IN  /\ ~body.threw
           /\ cNote' = Note(1, body.v)
    /\ cStage' = "stored"
    /\ cWriter' = "api_sync"
    /\ cInput' = v
    /\ UNCHANGED <<cWrap, cNow, cReader, cVehicles, cApiVehicles>>
    /\ CodecOnly

\* A note some other author attached to the contact.
ExternalNote(v, wrap) ==
    /\ cStage = "start"
    /\ cNote' = Note(1, Str(WrapText(wrap, v)))
    /\ cStage' = "stored"
    /\ cWriter' = "external"
    /\ cInput' = v
    /\ cWrap' = wrap
    /\ UNCHANGED <<cNow, cReader, cVehicles, cApiVehicles>>
    /\ CodecOnly

\* A note without hs_note_body.
ExternalEmptyNote ==
    /\ cStage = "start"
    /\ cNote' = Note(1, Null)
    /\ cStage' = "stored"
    /\ cWriter' = "external"
    /\ cWrap' = "none"
    /\ UNCHANGED <<cInput, cNow, cReader, cVehicles, cApiVehicles>>
    /\ CodecOnly

\* GET /vehicles: parseVehiclesFromNotes over the notes read.
GetVehiclesDecode ==
    /\ cStage = "stored"
    /\ cVehicles' = parseVehiclesFromNotes(<<cNote>>)
    /\ cStage' = "read"
    /\ cReader' = "vehicles"
    /\ UNCHANGED <<cWriter, cInput, cWrap, cNow, cNote, cApiVehicles>>
    /\ CodecOnly

\* GET /api/hubspot/vehicles: its decode loop over the notes read.
ApiGetVehiclesDecode ==
    /\ cStage = "stored"
    /\ cApiVehicles' = apiVehiclesFromNotes(<<cNote>>)
    /\ cStage' = "read"
    /\ cReader' = "api"
    /\ UNCHANGED <<cWriter, cInput, cWrap, cNow, cNote, cVehicles>>
    /\ CodecOnly

CodecNext ==
    \/ \E v \in VehicleInputs, now \in NowValues : VehiclesSyncNote(v, now)
    \/ \E v \in ApiVehicleInputs : ApiVehiclesSyncNote(v)
    \/ \E v \in ExternalObjects \cup ExternalOthers,
          wrap \in {"json", "html", "prose"} : ExternalNote(v, wrap)
    \/ \E t \in ExternalTexts : ExternalNote(Str(t), "text")
    \/ ExternalEmptyNote
    \/ GetVehiclesDecode
    \/ ApiGetVehiclesDecode


(***************************************************************************)
(* Properties of the codec                                                 *)
(***************************************************************************)

RecordKeys == {KeyName, KeyMake, KeyModel, KeyYear, KeyColor, KeyPlate}

\* The string r carries under key; the empty string when the field is absent.
FieldOrEmpty(r, key) ==
    IF hasOwnProperty(r, key) /\ Get(r, key).t = "string"
    THEN Get(r, key).s
    ELSE <<>>

AllStringFields(r) ==
    /\ r.t = "object"
    /\ \A i \in 1..Len(r.o) : r.o[i].v.t = "string"

NonEmptyFields(r) == Cardinality({k \in RecordKeys : FieldOrEmpty(r, k) # <<>>})

\* The field of a decoded vehicle that belongs to key.
VehicleField(veh, key) ==
    CASE key = KeyName -> veh.name
      [] key = KeyMake -> veh.make
      [] key = KeyModel -> veh.model
      [] key = KeyYear -> veh.year
      [] key = KeyColor -> veh.color
      [] OTHER -> veh.plate

\* The number of recognized fields (name, make, model, year, color, and the
\* plate under either key) that a parsed JSON value carries with a non-empty
\* value; a value that is not an object carries none.
RecognizedCount(v) ==
    Cardinality({k \in {KeyName, KeyMake, KeyModel, KeyYear, KeyColor} :
                    Truthy(Get(v, k))})
    + (IF Truthy(Get(v, KeyPlate)) \/ Truthy(Get(v, KeyLicensePlate))
       THEN 1 ELSE 0)

\* The display name of a record without a name: year, make and model, those
\* that are not empty, joined by spaces, or "Vehicle <Date.now()>" when all
\* three are empty.
DerivedName(r, now) ==
    LET parts == SelectSeq(<<FieldOrEmpty(r, KeyYear), FieldOrEmpty(r, KeyMake),
                             FieldOrEmpty(r, KeyModel)>>,
                           LAMBDA x : x # <<>>)
    IN  IF parts = <<>>
        THEN <<"V", "e", "h", "i", "c", "l", "e", " ">> \o NumToString(now)
        ELSE JoinWithSpace(parts)

\* A note written by POST /vehicles/sync for a record of string fields with
\* at least 2 of them non-empty has been decoded by GET /vehicles.
RoundTripDone ==
    /\ cStage = "read"
    /\ cReader = "vehicles"
    /\ cWriter = "vehicles_sync"
    /\ AllStringFields(cInput)
    /\ NonEmptyFields(cInput) >= 2

\* C1 as stated: decoding the note POST /vehicles/sync wrote for r recovers r
\* on all six fields, an absent field comparing equal to the empty string.
C1_RoundTripAllFields ==
    RoundTripDone =>
        /\ Len(cVehicles) = 1
        /\ \A k \in RecordKeys :
              VehicleField(cVehicles[1], k) = FieldOrEmpty(cInput, k)

\* C1 as amended: the round trip recovers r on make, model, year, color and
\* plate, and on name when r has a non-empty name; for a record without a
\* name the decoded name is the derived display name, not the empty string.
C1_RoundTrip ==
    RoundTripDone =>
        /\ Len(cVehicles) = 1
        /\ \A k \in RecordKeys \ {KeyName} :
              VehicleField(cVehicles[1], k) = FieldOrEmpty(cInput, k)
        /\ cVehicles[1].name =
              IF FieldOrEmpty(cInput, KeyName) # <<>>
              THEN FieldOrEmpty(cInput, KeyName)
              ELSE DerivedName(cInput, cNow)

\* A round trip of a record without a name whose color needs escaping.
C1_Witness ==
    /\ RoundTripDone
    /\ FieldOrEmpty(cInput, KeyName) = <<>>
    /\ FieldOrEmpty(cInput, KeyColor) = <<"\"", "\\">>
    /\ FieldOrEmpty(cInput, KeyPlate) = <<"P">>
    /\ Len(cVehicles) = 1
    /\ cVehicles[1].color = <<"\"", "\\">>
    /\ cVehicles[1].name # <<>>

\* The name in the note POST /vehicles/sync stored.
StoredName ==
    Get(JSONparse(ToStringJS(OrElse(cNote.hs_note_body, EmptyString))).v, KeyName)

\* C17 as stated: the name POST /vehicles/sync stores for a record without
\* a non-empty name is year, make and model joined by single spaces and
\* trimmed, empty parts omitted, for every combination of present and
\* absent parts; a record with a non-empty name keeps it.
C17_NameDerivationTrimmed ==
    cWriter = "vehicles_sync" =>
        StoredName =
            IF FieldOrEmpty(cInput, KeyName) # <<>>
            THEN Str(FieldOrEmpty(cInput, KeyName))
            ELSE Str(trim(JoinWithSpace(
                     SelectSeq(<<FieldOrEmpty(cInput, KeyYear),
                                 FieldOrEmpty(cInput, KeyMake),
                                 FieldOrEmpty(cInput, KeyModel)>>,
                               LAMBDA x : x # <<>>))))

\* C17 as amended: the stored name of a record without a non-empty name is
\* the non-empty values of year, make and model, in that order and as they
\* are, joined by single spaces, or "Vehicle " and the time of the request
\* when all three are empty; a record with a non-empty name keeps it.
C17_NameDerivation ==
    cWriter = "vehicles_sync" =>
        StoredName =
            IF FieldOrEmpty(cInput, KeyName) # <<>>
            THEN Str(FieldOrEmpty(cInput, KeyName))
            ELSE Str(DerivedName(cInput, cNow))

\* A record with year, make and model and no name was stored with the
\* three joined.
C17_Witness ==
    /\ cWriter = "vehicles_sync"
    /\ FieldOrEmpty(cInput, KeyName) = <<>>
    /\ FieldOrEmpty(cInput, KeyYear) = <<"7">>
    /\ FieldOrEmpty(cInput, KeyMake) = <<"H">>
    /\ FieldOrEmpty(cInput, KeyModel) = <<"C">>
    /\ StoredName = Str(<<"7", " ", "H", " ", "C">>)

\* The JSON value of the stored note body, when the body is JSON.
StoredJSON == JSONparse(ToStringJS(OrElse(cNote.hs_note_body, EmptyString)))

\* C2: a note body whose parsed JSON has fewer than 2 recognized fields with
\* a non-empty value decodes to no vehicle record, in GET /vehicles and in
\* GET /api/hubspot/vehicles.
C2_Rejection ==
    (cStage = "read" /\ ~StoredJSON.threw /\ RecognizedCount(StoredJSON.v) < 2)
        => /\ cReader = "vehicles" => cVehicles = <<>>
           /\ cReader = "api" => cApiVehicles = <<>>

\* C7: a record object with at least 2 recognized fields, stored inside HTML
\* tags or after a prose prefix, decodes to that record.
C7_WrappedJson ==
    (/\ cStage = "read"
     /\ cReader = "vehicles"
     /\ cWriter = "external"
     /\ cWrap \in {"html", "prose"}
     /\ cInput.t = "object"
     /\ RecognizedCount(cInput) >= 2)
        => /\ Len(cVehicles) = 1
           /\ cVehicles[1].make = FieldOrEmpty(cInput, KeyMake)
           /\ cVehicles[1].model = FieldOrEmpty(cInput, KeyModel)

\* C8: a note body that is a JSON array of record objects decodes to one
\* vehicle per accepted element, in the order of the elements, never to a
\* single record built from the array itself.
C8_ArrayContainer ==
    (/\ cStage = "read"
     /\ cReader = "vehicles"
     /\ cWriter = "external"
     /\ cWrap = "json"
     /\ cInput.t = "array")
        => LET accepted == SelectSeq(cInput.a, LAMBDA e : RecognizedCount(e) >= 2)
           IN  /\ Len(cVehicles) = Len(accepted)
               /\ \A i \in 1..Len(accepted) :
                     /\ cVehicles[i].make = FieldOrEmpty(accepted[i], KeyMake)
                     /\ cVehicles[i].model = FieldOrEmpty(accepted[i], KeyModel)

\* The stored note is the JSON of an object that carries the string p under
\* exactly one of the keys plate and licensePlate.
CarriesPlate(p) ==
    /\ cWriter = "external"
    /\ cWrap = "json"
    /\ cInput.t = "object"
    /\ \/ /\ Get(cInput, KeyPlate) = Str(p)
          /\ ~hasOwnProperty(cInput, KeyLicensePlate)
       \/ /\ Get(cInput, KeyLicensePlate) = Str(p)
          /\ ~hasOwnProperty(cInput, KeyPlate)

\* C9: a body that carries the plate p under "plate" and one that carries it
\* under "licensePlate" decode to records with the same plate, p, in
\* GET /vehicles and in GET /api/hubspot/vehicles.
C9_AliasUnification ==
    \A p \in {<<>>, <<"P">>} :
        (cStage = "read" /\ CarriesPlate(p))
            => /\ (cReader = "vehicles" /\ cVehicles # <<>>)
                    => cVehicles[1].plate = p
               /\ (cReader = "api" /\ cApiVehicles # <<>>)
                    => cApiVehicles[1].licensePlate = Str(p)

(***************************************************************************)
(* GET /refills/history: the refill tasks of a contact, with the status    *)
(* decoded from the "(N)" prefix of the task subject.                      *)
(***************************************************************************)

\* The limit parameter of the task listing request.
ListLimit == 100

\* The contacts of the remote store.
Contacts == { [email |-> <<"a">>, id |-> 1], [email |-> <<"b">>, id |-> 2] }

\* getContactByEmail(email): the first search result, or null.
getContactByEmail(email) ==
    IF \E c \in Contacts : c.email = email
    THEN CHOOSE c \in Contacts : c.email = email
    ELSE [email |-> email, id |-> 0]

\* A task as the listing returns it: properties and associations.contacts.
Task(id, subject, status, body, timestamp, contacts) ==
    [id |-> id, hs_task_subject |-> subject, hs_task_status |-> status,
     hs_task_body |-> body, hs_timestamp |-> timestamp, contacts |-> contacts]

\* rawSubject.match(/^\((\d)\)\s*(.*)$/): "(", a digit and ")" at the start,
\* then the longest run of white space after which the rest, up to the end of
\* the subject, holds no line terminator.
SubjectMatch(rawSubject) ==
    LET s == rawSubject
        ends == { j \in 3..Len(s) :
                    /\ \A k \in 4..j : s[k] \in WhiteSpace
                    /\ \A k \in (j + 1)..Len(s) : s[k] \notin LineTerminators }
    IN  IF /\ Len(s) >= 3
           /\ s[1] = "("
           /\ IsDigit(s[2])
           /\ s[3] = ")"
           /\ ends # {}
        THEN LET j == CHOOSE x \in ends : \A y \in ends : y <= x
             IN  [matched |-> TRUE, digit |-> s[2], rest |-> SubSeq(s, j + 1, Len(s))]
        ELSE [matched |-> FALSE, digit |-> "0", rest |-> <<>>]

\* A mutant of hubSpotStatusCode: DEFERRED is not taken as canceled.
hubSpotStatusCodeNoDeferred(task) ==
    LET hsStatus == toUpperCase(ToStringJS(OrElse(task.hs_task_status, EmptyString)))
    IN  IF hsStatus = <<"C", "O", "M", "P", "L", "E", "T", "E", "D">> THEN 1
        ELSE IF hsStatus = <<"C", "A", "N", "C", "E", "L", "E", "D">> THEN 2
        ELSE 0

\* The fallback of the status mapping: the code of the HubSpot task status.
hubSpotStatusCode(task) ==
    LET hsStatus == toUpperCase(ToStringJS(OrElse(task.hs_task_status, EmptyString)))
    IN  IF hsStatus = <<"C", "O", "M", "P", "L", "E", "T", "E", "D">> THEN 1
        ELSE IF hsStatus \in { <<"C", "A", "N", "C", "E", "L", "E", "D">>,
                               <<"D", "E", "F", "E", "R", "R", "E", "D">> } THEN 2
        ELSE 0

\* The switch on statusCode.
statusLabelOf(statusCode) ==
    CASE statusCode = 1 -> "Completed"
      [] statusCode = 2 -> "Canceled"
      [] OTHER -> "In progress"

\* The callback of refillTasks.map: the refill reported for a task.
mapRefillTask(task) ==
    LET rawSubject == ToStringJS(OrElse(task.hs_task_subject, EmptyString))
        match == SubjectMatch(rawSubject)
        statusCode == IF match.matched
                      THEN DigitValue(match.digit)
                      ELSE hubSpotStatusCode(task)
    IN  [id |-> task.id,
         subject |-> IF match.matched THEN match.rest ELSE rawSubject,
         timestamp |-> task.hs_timestamp,
         statusCode |-> statusCode,
         statusLabel |-> statusLabelOf(statusCode),
         details |-> ToStringJS(OrElse(task.hs_task_body, EmptyString))]

\* A mutant of isRefillTask: the association with the contact is not checked.
isRefillTaskOfAnyContact(task, contactId) ==
    LET subject == trim(ToStringJS(OrElse(task.hs_task_subject, EmptyString)))
        lower == toLowerCase(subject)
        hasPrefix == \/ startsWith(subject, <<"(", "0", ")">>)
                     \/ startsWith(subject, <<"(", "1", ")">>)
                     \/ startsWith(subject, <<"(", "2", ")">>)
        containsRefill == includes(lower, <<"r", "e", "f", "i", "l", "l">>)
    IN  hasPrefix \/ containsRefill

\* The callback of rawResults.filter: whether a task is a refill of the contact.
isRefillTask(task, contactId) ==
    LET subject == trim(ToStringJS(OrElse(task.hs_task_subject, EmptyString)))
        isAssociated == contactId \in task.contacts
        lower == toLowerCase(subject)
        hasPrefix == \/ startsWith(subject, <<"(", "0", ")">>)
                     \/ startsWith(subject, <<"(", "1", ")">>)
                     \/ startsWith(subject, <<"(", "2", ")">>)
        containsRefill == includes(lower, <<"r", "e", "f", "i", "l", "l">>)
    IN  isAssociated /\ (hasPrefix \/ containsRefill)

\* mapped.sort: newest first, refills of equal time keeping their order.
RECURSIVE InsertNewestFirst(_, _)
InsertNewestFirst(sorted, r) ==
    IF sorted = <<>> THEN <<r>>
    ELSE IF r.timestamp > Head(sorted).timestamp THEN <<r>> \o sorted
    ELSE <<Head(sorted)>> \o InsertNewestFirst(Tail(sorted), r)

RECURSIVE SortNewestFirst(_)
SortNewestFirst(mapped) ==
    IF mapped = <<>> THEN <<>>
    ELSE InsertNewestFirst(SortNewestFirst(SubSeq(mapped, 1, Len(mapped) - 1)),
                           mapped[Len(mapped)])

\* The first page of the task listing.
ListedTasks ==
    SubSeq(hTasks, 1, IF Len(hTasks) < ListLimit THEN Len(hTasks) ELSE ListLimit)

\* The refills GET /refills/history returns for the contact.
refillsOf(contactId) ==
    LET refillTasks == SelectSeq(ListedTasks, LAMBDA t : isRefillTask(t, contactId))
    IN  SortNewestFirst([i \in 1..Len(refillTasks) |-> mapRefillTask(refillTasks[i])])

Response(status, error, contactId, refills) ==
    [status |-> status, error |-> error, contactId |-> contactId, refills |-> refills]

NoResponse == Response(0, "", 0, <<>>)

\* The status of the error response of a catch block: err.response?.status
\* || 500, where remoteStatus is 0 when the remote call got no response.
errorStatus(remoteStatus) == IF remoteStatus = 0 THEN 500 ELSE remoteStatus

\* The statuses a failing remote call may answer with (0: no answer at all).
RemoteStatuses == {0, 429, 502}

\* The response of GET /refills/history?email=..., where fail names the
\* remote call that fails ("none", "search", "list").
refillsHistory(email, fail, remoteStatus) ==
    LET trimmed == trim(email)
        contact == getContactByEmail(trimmed)
    IN  IF trimmed = <<>>
        THEN Response(400, "email is required", 0, <<>>)
        ELSE IF fail = "search"
        THEN Response(errorStatus(remoteStatus), "server_error", 0, <<>>)
        ELSE IF contact.id = 0
        THEN Response(404, "contact_not_found", 0, <<>>)
        ELSE IF fail = "list"
        THEN Response(errorStatus(remoteStatus), "server_error", 0, <<>>)
        ELSE Response(200, "", contact.id, refillsOf(contact.id))

(***************************************************************************)
(* The tasks of the remote store and the requests of the history model     *)
(***************************************************************************)

\* The number of tasks in the remote store.
MaxTasks == 2

Refill == <<"R", "e", "f", "i", "l", "l">>

\* Task subjects: optional leading white space, an optional "(d)" prefix,
\* optional white space, and a rest with or without the word refill and with
\* or without a line break.
Subjects ==
    { lead \o prefix \o gap \o rest :
        lead \in {<<>>, <<" ">>},
        prefix \in {<<>>, <<"(", "0", ")">>, <<"(", "1", ")">>,
                    <<"(", "2", ")">>, <<"(", "5", ")">>},
        gap \in {<<>>, <<" ">>, <<"\n">>},
        rest \in {<<>>, Refill, <<"G", "a", "s">>, Refill \o <<"\n", "B">>} }

HsTaskStatuses ==
    { Null,
      Str(<<"N", "O", "T", "_", "S", "T", "A", "R", "T", "E", "D">>),
      Str(<<"C", "O", "M", "P", "L", "E", "T", "E", "D">>),
      Str(<<"D", "E", "F", "E", "R", "R", "E", "D">>),
      Str(<<"C", "A", "N", "C", "E", "L", "E", "D">>),
      Str(<<"c", "o", "m", "p", "l", "e", "t", "e", "d">>) }

TaskBody == Str(<<"N", "e", "w">>)

\* Further tasks of the store: a newer refill of contact 1 and an older task
\* of both contacts that is no refill.
OtherTasks ==
    { Task(0, Str(Refill), Null, TaskBody, 9, {1}),
      Task(0, Str(<<"C", "a", "l", "l">>),
           Str(<<"C", "O", "M", "P", "L", "E", "T", "E", "D">>), Null, 3, {1, 2}) }

EmailInputs == { <<>>, <<" ">>, <<"a">>, <<" ", "a">>, <<"b">>, <<"z">> }

\* The history model leaves the rest of the state alone.
HistoryOnly ==
    UNCHANGED <<codecVars, vehicleVars, syncVars, refillVars, contactVars,
               pushVars, truckVars>>

HistoryInit ==
    /\ hTasks = <<>>
    /\ hResp = NoResponse

\* A task appears in the empty remote store.
TaskStored(subject, status, contacts) ==
    /\ hTasks = <<>>
    /\ hTasks' = <<Task(1, subject, status, TaskBody, 5, contacts)>>
    /\ hResp' = NoResponse
    /\ HistoryOnly

\* A further task appears in the remote store.
OtherTaskStored(t) ==
    /\ Len(hTasks) >= 1
    /\ Len(hTasks) < MaxTasks
    /\ hTasks' = Append(hTasks, [t EXCEPT !.id = Len(hTasks) + 1])
    /\ hResp' = NoResponse
    /\ HistoryOnly

\* GET /refills/history
RefillsHistory(email, fail, remoteStatus) ==
    /\ hResp' = refillsHistory(email, fail, remoteStatus)
    /\ UNCHANGED hTasks
    /\ HistoryOnly

HistoryNext ==
    \/ \E subject \in {Str(x) : x \in Subjects} \cup {Null},
          status \in HsTaskStatuses, contacts \in {{1}, {2}} :
            TaskStored(subject, status, contacts)
    \/ \E subject \in {Str(x) : x \in Subjects} \cup {Null} :
            TaskStored(subject, Null, {})
    \/ \E t \in OtherTasks : OtherTaskStored(t)
    \/ \E email \in EmailInputs, fail \in {"search", "list"},
          remoteStatus \in RemoteStatuses :
            RefillsHistory(email, fail, remoteStatus)
    \/ \E email \in EmailInputs : RefillsHistory(email, "none", 0)

(***************************************************************************)
(* GET /vehicles and GET /api/hubspot/vehicles over the notes of a contact *)
(***************************************************************************)

MaxNotes == 2

\* The notes associated with the contact, as the batch read returns them.
notesOf(contactId) ==
    LET mine == SelectSeq(vNotes, LAMBDA x : x.contact = contactId)
    IN  [i \in 1..Len(mine) |-> mine[i].note]

VehiclesResponse(status, error, vehicles) ==
    [status |-> status, error |-> error, vehicles |-> vehicles]

VehiclesRequest(endpoint, email, fail) ==
    [endpoint |-> endpoint, email |-> email, fail |-> fail]

\* The response of GET /vehicles?email=..., where fail names the remote
\* call that fails ("none", "search", "assoc", "batch").
getVehicles(email, fail, remoteStatus) ==
    LET trimmed == trim(email)
        contact == getContactByEmail(trimmed)
        notes == notesOf(contact.id)
    IN  IF trimmed = <<>>
        THEN VehiclesResponse(400, "email is required", <<>>)
        ELSE IF fail = "search"
        THEN VehiclesResponse(errorStatus(remoteStatus), "server_error", <<>>)
        ELSE IF contact.id = 0
        THEN VehiclesResponse(404, "contact_not_found", <<>>)
        ELSE IF fail = "assoc"
        THEN VehiclesResponse(errorStatus(remoteStatus), "server_error", <<>>)
        ELSE IF notes = <<>>
        THEN VehiclesResponse(200, "", <<>>)
        ELSE IF fail = "batch"
        THEN VehiclesResponse(errorStatus(remoteStatus), "server_error", <<>>)
        ELSE VehiclesResponse(200, "", parseVehiclesFromNotes(notes))

\* The response of GET /api/hubspot/vehicles?email=...
apiGetVehicles(email, fail, remoteStatus) ==
    LET trimmed == trim(email)
        contact == getContactByEmail(trimmed)
        notes == notesOf(contact.id)
    IN  IF trimmed = <<>>
        THEN VehiclesResponse(400, "email is required", <<>>)
        ELSE IF fail = "search"
        THEN VehiclesResponse(errorStatus(remoteStatus), "server_error", <<>>)
        ELSE IF contact.id = 0
        THEN VehiclesResponse(200, "", <<>>)
        ELSE IF fail = "assoc"
        THEN VehiclesResponse(errorStatus(remoteStatus), "server_error", <<>>)
        ELSE IF notes = <<>>
        THEN VehiclesResponse(200, "", <<>>)
        ELSE IF fail = "batch"
        THEN VehiclesResponse(errorStatus(remoteStatus), "server_error", <<>>)
        ELSE VehiclesResponse(200, "", apiVehiclesFromNotes(notes))

TaggedCD ==
    MkObject(<<Prop(KeyType, Str(<<"V", "e", "h", "i", "c", "l", "e">>)),
               Prop(KeyMake, Str(<<"C">>)), Prop(KeyModel, Str(<<"D">>))>>)

\* The note bodies of the remote store: none, empty, no JSON, JSON that is
\* not a record, and records.
NoteBodies ==
    { Null, EmptyString, Str(<<"h", "i">>), Str(<<"{", "\"", "a", "\"", ":">>),
      Str(JSONstringify(Null)), Str(JSONstringify(Num(5))),
      Str(JSONstringify(Str(<<"a", "b">>))), Str(JSONstringify(Arr(<<>>))),
      Str(JSONstringify(RecordAB)), Str(JSONstringify(TaggedAB)),
      Str(JSONstringify(TaggedCD)) }

\* The vehicle handlers leave the rest of the state alone.
VehiclesOnly ==
    UNCHANGED <<codecVars, historyVars, syncVars, refillVars, contactVars,
               pushVars, truckVars>>

NoVehiclesRequest == VehiclesRequest("none", <<>>, "none")

NoVehiclesResponse == VehiclesResponse(0, "", <<>>)

VehiclesInit ==
    /\ vNotes = <<>>
    /\ vReq = NoVehiclesRequest
    /\ vResp = NoVehiclesResponse

\* A note is attached to a contact in the remote store.
NoteStored(contactId, body) ==
    /\ Len(vNotes) < MaxNotes
    /\ vNotes' = Append(vNotes, [contact |-> contactId,
                                 note |-> Note(Len(vNotes) + 1, body)])
    /\ vReq' = NoVehiclesRequest
    /\ vResp' = NoVehiclesResponse
    /\ VehiclesOnly

\* GET /vehicles
GetVehicles(email, fail, remoteStatus) ==
    /\ vReq' = VehiclesRequest("vehicles", email, fail)
    /\ vResp' = getVehicles(email, fail, remoteStatus)
    /\ UNCHANGED vNotes
    /\ VehiclesOnly

\* GET /api/hubspot/vehicles
ApiGetVehicles(email, fail, remoteStatus) ==
    /\ vReq' = VehiclesRequest("api", email, fail)
    /\ vResp' = apiGetVehicles(email, fail, remoteStatus)
    /\ UNCHANGED vNotes
    /\ VehiclesOnly

VehiclesNext ==
    \/ \E body \in NoteBodies : NoteStored(1, body)
    \/ NoteStored(2, Str(JSONstringify(TaggedAB)))
    \/ \E email \in EmailInputs, fail \in {"search", "assoc", "batch"},
          remoteStatus \in RemoteStatuses :
            \/ GetVehicles(email, fail, remoteStatus)
            \/ ApiGetVehicles(email, fail, remoteStatus)
    \/ \E email \in EmailInputs :
            \/ GetVehicles(email, "none", 0)
            \/ ApiGetVehicles(email, "none", 0)

(***************************************************************************)
(* Properties of the vehicle handlers                                      *)
(***************************************************************************)

\* The note body is empty, is not JSON, or is JSON that is not a record.
NotARecord(note) ==
    LET body == OrElse(note.hs_note_body, EmptyString)
        parsed == JSONparse(ToStringJS(body))
    IN  \/ ~Truthy(body)
        \/ parsed.threw
        \/ parsed.v.t # "object"

\* The note body is a record tagged as a vehicle.
TaggedRecord(note) ==
    /\ ~NotARecord(note)
    /\ LET type == Get(JSONparse(ToStringJS(note.hs_note_body)).v, KeyType)
       IN  type.t = "string" /\ toLowerCase(type.s) = <<"v", "e", "h", "i", "c", "l", "e">>

\* The make stored in a note whose body is a record.
MakeOf(note) == Get(JSONparse(ToStringJS(note.hs_note_body)).v, KeyMake)

\* C3: when no remote call fails, the request of a known contact is
\* answered with status 200 and the vehicles of exactly the notes that are
\* records (for /api/hubspot/vehicles: records tagged as vehicles), in the
\* order of the notes; a note whose body is empty, is not JSON or is JSON
\* that is not a record contributes nothing.
C3_DecodeNeverRaises ==
    LET contact == getContactByEmail(trim(vReq.email))
        notes == notesOf(contact.id)
        records == SelectSeq(notes, LAMBDA n : ~NotARecord(n))
        tagged == SelectSeq(notes, TaggedRecord)
    IN  (vReq.endpoint # "none" /\ vReq.fail = "none" /\ contact.id # 0) =>
            /\ vResp.status = 200
            /\ vReq.endpoint = "vehicles" =>
                  /\ Len(vResp.vehicles) = Len(records)
                  /\ \A i \in 1..Len(records) :
                        /\ vResp.vehicles[i].id = records[i].id
                        /\ Str(vResp.vehicles[i].make) = MakeOf(records[i])
            /\ vReq.endpoint = "api" =>
                  /\ Len(vResp.vehicles) = Len(tagged)
                  /\ \A i \in 1..Len(tagged) :
                        vResp.vehicles[i].make = MakeOf(tagged[i])

(***************************************************************************)
(* POST /vehicles/sync and POST /api/hubspot/vehicles/sync, one remote     *)
(* call per step; each remote call succeeds (200) or fails with a status   *)
(* of RemoteStatuses.                                                      *)
(***************************************************************************)

MaxSyncRequests == 2

\* deleteNotes archives the old notes in chunks of this size.
ArchiveBatch == 80

\* The sync handlers leave the rest of the state alone.
SyncOnly ==
    UNCHANGED <<codecVars, historyVars, vehicleVars, refillVars, contactVars,
               pushVars, truckVars>>

SyncInit ==
    /\ sStore = <<>>
    /\ sNextId = 1
    /\ sReq = [handler |-> "none", body |-> [email |-> Undefined, vehicles |-> Undefined],
               email |-> <<>>, rawVehicles |-> <<>>,
               pc |-> "done", contactId |-> 0, existingNoteIds |-> <<>>,
               old |-> <<>>, i |-> 1, noteId |-> 0, calls |-> <<>>,
               deleteFailed |-> {}, n |-> 0, prev |-> "none"]
    /\ sResp = [status |-> 0, error |-> "", created |-> 0]

\* The handler answers and returns.
SyncAnswer(status, error, calls) ==
    /\ sResp' = [status |-> status, error |-> error, created |-> sReq.i - 1]
    /\ sReq' = [sReq EXCEPT !.pc = "done", !.calls = calls]

\* The catch block of both handlers, after the remote call `call` failed.
SyncCatch(remote, call) ==
    SyncAnswer(errorStatus(remote), "server_error", Append(sReq.calls, call))

\* A request arrives: the validation of its body.  handler is "sync" for
\* POST /vehicles/sync and "api" for POST /api/hubspot/vehicles/sync.
SyncRequest(handler, email, vehicles) ==
    /\ sReq.pc = "done"
    /\ sReq.n < MaxSyncRequests
    /\ LET text == IF handler = "sync"
                   THEN trim(ToStringJS(Coalesce(email, EmptyString)))
                   ELSE ToStringJS(email)
           invalid == IF handler = "sync"
                      THEN text = <<>>
                      ELSE ~Truthy(email) \/ vehicles.t # "array"
           outcome == IF sReq.handler = "none" THEN "none"
                      ELSE IF sResp.status = 200 THEN "ok"
                      ELSE IF /\ sReq.handler = "sync"
                              /\ sResp.error = "server_error"
                              /\ sReq.calls # <<>>
                              /\ sReq.calls[Len(sReq.calls)] \in {"create", "associate"}
                      THEN "create_failed"
                      ELSE "other"
           req == [handler |-> handler,
                   body |-> [email |-> email, vehicles |-> vehicles],
                   email |-> text,
                   rawVehicles |-> IF vehicles.t = "array" THEN vehicles.a ELSE <<>>,
                   pc |-> IF invalid THEN "done" ELSE "search",
                   contactId |-> 0, existingNoteIds |-> <<>>, old |-> <<>>,
                   i |-> 1, noteId |-> 0, calls |-> <<>>,
                   deleteFailed |-> {}, n |-> sReq.n + 1,
                   prev |-> outcome]
       IN  /\ sReq' = req
           /\ sResp' = IF invalid
                       THEN [status |-> 400,
                             error |-> IF handler = "sync" THEN "email is required"
                                       ELSE "email and vehicles[] are required",
                             created |-> 0]
                       ELSE [status |-> 0, error |-> "", created |-> 0]
    /\ UNCHANGED <<sStore, sNextId>>
    /\ SyncOnly

\* getContactByEmail(email): the search, and the 404 when it finds nothing.
SyncSearch(remote) ==
    /\ sReq.pc = "search"
    /\ LET contact == getContactByEmail(sReq.email)
           calls == Append(sReq.calls, "search")
       IN  IF remote # 200 THEN SyncCatch(remote, "search")
           ELSE IF contact.id = 0
           THEN SyncAnswer(404, "contact_not_found", calls)
           ELSE /\ sReq' = [sReq EXCEPT !.pc = "associations", !.calls = calls,
                                        !.contactId = contact.id]
                /\ UNCHANGED sResp
    /\ UNCHANGED <<sStore, sNextId>>
    /\ SyncOnly

\* A mutant of SyncAssociations: the old notes are not looked up.
SyncAssociationsNone(remote) ==
    /\ sReq.pc = "associations"
    /\ IF remote # 200 THEN SyncCatch(remote, "associations")
       ELSE /\ sReq' = [sReq EXCEPT !.pc = "create",
                                    !.calls = Append(sReq.calls, "associations")]
            /\ UNCHANGED sResp
    /\ UNCHANGED <<sStore, sNextId>>
    /\ SyncOnly

\* The ids of the notes associated with the contact.
SyncAssociations(remote) ==
    /\ sReq.pc = "associations"
    /\ LET mine == SelectSeq(sStore, LAMBDA x : x.contact = sReq.contactId)
           existingNoteIds == [j \in 1..Len(mine) |-> mine[j].id]
       IN  IF remote # 200 THEN SyncCatch(remote, "associations")
           ELSE /\ sReq' = [sReq EXCEPT
                      !.pc = IF existingNoteIds = <<>> THEN "create"
                             ELSE IF sReq.handler = "sync" THEN "delete"
                             ELSE "archive",
                      !.calls = Append(sReq.calls, "associations"),
                      !.existingNoteIds = existingNoteIds,
                      !.old = existingNoteIds]
                /\ UNCHANGED sResp
    /\ UNCHANGED <<sStore, sNextId>>
    /\ SyncOnly

\* A mutant of SyncDeleteNote: a failed delete reaches the catch block of
\* the handler.
SyncDeleteNoteAborting(remote) ==
    /\ sReq.pc = "delete"
    /\ LET noteId == Head(sReq.old)
       IN  IF remote # 200
           THEN SyncCatch(remote, "delete") /\ UNCHANGED sStore
           ELSE /\ sStore' = SelectSeq(sStore, LAMBDA x : x.id # noteId)
                /\ sReq' = [sReq EXCEPT
                       !.pc = IF Len(sReq.old) = 1 THEN "create" ELSE "delete",
                       !.calls = Append(sReq.calls, "delete"),
                       !.old = Tail(sReq.old)]
                /\ UNCHANGED sResp
    /\ UNCHANGED sNextId
    /\ SyncOnly

\* POST /vehicles/sync: the delete of one old note, in its own try/catch.
SyncDeleteNote(remote) ==
    /\ sReq.pc = "delete"
    /\ LET noteId == Head(sReq.old)
       IN  /\ sStore' = IF remote = 200
                        THEN SelectSeq(sStore, LAMBDA x : x.id # noteId)
                        ELSE sStore
           /\ sReq' = [sReq EXCEPT
                  !.pc = IF Len(sReq.old) = 1 THEN "create" ELSE "delete",
                  !.calls = Append(sReq.calls, "delete"),
                  !.old = Tail(sReq.old),
                  !.deleteFailed = IF remote = 200 THEN @ ELSE @ \cup {noteId}]
    /\ UNCHANGED <<sNextId, sResp>>
    /\ SyncOnly

\* POST /api/hubspot/vehicles/sync: deleteNotes archives one chunk.
deleteNotes(remote) ==
    /\ sReq.pc = "archive"
    /\ LET size == IF Len(sReq.old) < ArchiveBatch THEN Len(sReq.old)
                   ELSE ArchiveBatch
           chunk == {sReq.old[j] : j \in 1..size}
           rest == SubSeq(sReq.old, size + 1, Len(sReq.old))
       IN  IF remote # 200
           THEN SyncCatch(remote, "archive") /\ UNCHANGED sStore
           ELSE /\ sStore' = SelectSeq(sStore, LAMBDA x : x.id \notin chunk)
                /\ sReq' = [sReq EXCEPT
                       !.pc = IF rest = <<>> THEN "create" ELSE "archive",
                       !.calls = Append(sReq.calls, "archive"),
                       !.old = rest]
                /\ UNCHANGED sResp
    /\ UNCHANGED sNextId
    /\ SyncOnly

\* createNote for the next vehicle of the request.
SyncCreateNote(remote, now) ==
    /\ sReq.pc = "create"
    /\ sReq.i <= Len(sReq.rawVehicles)
    /\ LET v == sReq.rawVehicles[sReq.i]
           props == normalizeVehicleProps(v, now)
           body == IF sReq.handler = "api" THEN apiNoteBody(v)
                   ELSE IF props.threw THEN Threw
                   ELSE Returned(Str(createNoteBody(noteBody(props.v))))
       IN  IF body.threw
           THEN SyncAnswer(500, "server_error", sReq.calls)
                /\ UNCHANGED <<sStore, sNextId>>
           ELSE IF remote # 200
           THEN SyncCatch(remote, "create") /\ UNCHANGED <<sStore, sNextId>>
           ELSE /\ sStore' = Append(sStore, [id |-> sNextId, body |-> body.v,
                                             contact |-> 0])
                /\ sNextId' = sNextId + 1
                /\ sReq' = [sReq EXCEPT !.pc = "associate",
                                        !.calls = Append(sReq.calls, "create"),
                                        !.noteId = sNextId]
                /\ UNCHANGED sResp
    /\ SyncOnly

\* associateNoteToContact for the note just created.
SyncAssociate(remote) ==
    /\ sReq.pc = "associate"
    /\ IF remote # 200
       THEN SyncCatch(remote, "associate") /\ UNCHANGED sStore
       ELSE /\ sStore' = [j \in 1..Len(sStore) |->
                             IF sStore[j].id = sReq.noteId
                             THEN [sStore[j] EXCEPT !.contact = sReq.contactId]
                             ELSE sStore[j]]
            /\ sReq' = [sReq EXCEPT !.pc = "create",
                                    !.calls = Append(sReq.calls, "associate"),
                                    !.i = @ + 1]
            /\ UNCHANGED sResp
    /\ UNCHANGED sNextId
    /\ SyncOnly

\* Every vehicle has its note: the success response.
SyncRespond ==
    /\ sReq.pc = "create"
    /\ sReq.i > Len(sReq.rawVehicles)
    /\ SyncAnswer(200, "", sReq.calls)
    /\ UNCHANGED <<sStore, sNextId>>
    /\ SyncOnly

SyncNext ==
    \/ \E handler \in {"sync", "api"},
          email \in {Undefined, Str(<<"a">>), Str(<<"z">>)},
          vehicles \in {Undefined, Arr(<<>>), Arr(<<RecordAB>>),
                        Arr(<<RecordAB, MkObject(<<>>)>>)} :
            SyncRequest(handler, email, vehicles)
    \/ \E remote \in {200} \cup RemoteStatuses :
            \/ SyncSearch(remote)
            \/ SyncAssociations(remote)
            \/ SyncDeleteNote(remote)
            \/ deleteNotes(remote)
            \/ SyncAssociate(remote)
            \/ \E now \in NowValues : SyncCreateNote(remote, now)
    \/ SyncRespond

(***************************************************************************)
(* Properties of the vehicle sync handlers                                 *)
(***************************************************************************)

\* The number of calls of the request with the given name.
CallCount(name) == Len(SelectSeq(sReq.calls, LAMBDA c : c = name))

\* The last remote call of the request ("none" when it made none).
LastCall == IF sReq.calls = <<>> THEN "none" ELSE sReq.calls[Len(sReq.calls)]

\* The ids of the notes associated with the contact of the request.
ContactNoteIds == {sStore[j].id : j \in {k \in 1..Len(sStore) : sStore[k].contact = sReq.contactId}}

\* The ids of the old notes of the request.
OldNoteIds == {sReq.existingNoteIds[j] : j \in 1..Len(sReq.existingNoteIds)}

\* The request is past its deletion phase.
PastDeletion == sReq.pc \in {"create", "associate"} \/ (sReq.pc = "done" /\ LastCall \in {"delete", "create", "associate"})

\* C11: in POST /vehicles/sync a failed delete of an old note never ends
\* the request; the delete of every old note is attempted, whichever
\* deletes failed; the notes whose delete failed stay, the others are gone;
\* and the request then succeeds with one new note per requested vehicle
\* associated with the contact.
C11_BestEffortDeletion ==
    sReq.handler = "sync" =>
        /\ (sReq.pc = "done" /\ LastCall = "delete") => sResp.status = 200
        /\ PastDeletion =>
              /\ CallCount("delete") = Len(sReq.existingNoteIds)
              /\ ContactNoteIds \cap OldNoteIds = sReq.deleteFailed
        /\ (sReq.pc = "done" /\ sResp.status = 200) =>
              /\ sResp.created = Len(sReq.rawVehicles)
              /\ CallCount("create") = Len(sReq.rawVehicles)
              /\ CallCount("associate") = Len(sReq.rawVehicles)
              /\ Cardinality(ContactNoteIds \ OldNoteIds) = Len(sReq.rawVehicles)

\* A sync with two old notes deleted one, failed to delete the other, and
\* succeeded with a new note.
C11_Witness ==
    /\ sReq.handler = "sync"
    /\ sReq.pc = "done"
    /\ sResp.status = 200
    /\ Len(sReq.existingNoteIds) = 2
    /\ Cardinality(sReq.deleteFailed) = 1
    /\ CallCount("delete") = 2
    /\ Len(sReq.rawVehicles) >= 1
    /\ Cardinality(ContactNoteIds) = 1 + Len(sReq.rawVehicles)

\* C12: in POST /api/hubspot/vehicles/sync a failed batch-archive call does
\* not end the request: a request whose last remote call was an archive
\* call has succeeded, and every request that reached the archive phase and
\* failed in no other call created one note per requested vehicle.
C12_ArchiveBestEffort ==
    (sReq.handler = "api" /\ sReq.pc = "done" /\ LastCall = "archive") =>
        /\ sResp.status = 200
        /\ sResp.created = Len(sReq.rawVehicles)

C14_InputValidation ==
    (sReq.handler # "none"
        /\ (IsNullish(sReq.body.email) \/ sReq.body.vehicles.t # "array")) =>
            /\ sReq.pc = "done"
            /\ sResp.status \in 400..499
            /\ sReq.calls = <<>>

(***************************************************************************)
(* Properties of the error responses                                       *)
(***************************************************************************)

\* C15: when the search finds no contact for the email, GET /vehicles,
\* GET /api/hubspot/vehicles and both sync handlers answer 404 with the
\* error contact_not_found and make no further remote call.
C15_NotFoundDistinct ==
    /\ (vReq.endpoint # "none" /\ trim(vReq.email) # <<>>
            /\ vReq.fail # "search"
            /\ getContactByEmail(trim(vReq.email)).id = 0) =>
          (vResp.status = 404 /\ vResp.error = "contact_not_found")
    /\ (sReq.handler # "none" /\ sReq.pc = "done" /\ LastCall = "search"
            /\ sResp.error # "server_error") =>
          (sResp.status = 404 /\ sResp.error = "contact_not_found")

\* C16: a failed remote call of GET /vehicles, POST /vehicles/sync or
\* GET /refills/history is answered with the error server_error and a 5xx
\* status, whatever status the remote store answered with.
C16_RemoteFailures ==
    /\ (vReq.endpoint = "vehicles" /\ vReq.fail = "search"
            /\ trim(vReq.email) # <<>>) => vResp.error = "server_error"
    /\ (vReq.endpoint = "vehicles" /\ vResp.error = "server_error") =>
          vResp.status \in 500..599
    /\ (sReq.handler = "sync" /\ sResp.error = "server_error") =>
          sResp.status \in 500..599
    /\ hResp.error = "server_error" => hResp.status \in 500..599

(***************************************************************************)
(* POST /refills/book and POST /refills/update over the tasks of the       *)
(* remote store (hTasks, read by GET /refills/history).  A time is a       *)
(* number; the remote store lists tasks in the order of their creation.    *)
(***************************************************************************)

MaxBookings == 1

\* The rest of the state, which the refill handlers leave alone.
RefillsOnly ==
    UNCHANGED <<codecVars, vehicleVars, syncVars, contactVars, pushVars, truckVars>>

RefillsInit ==
    /\ rBooked = {}
    /\ rCreated = 0
    /\ rResp = [handler |-> "none", status |-> 0, error |-> "", taskId |-> 0]

\* The subject POST /refills/book gives to the task.
bookSubject(vehicleName, vehiclePlate) ==
    IF vehicleName # <<>> \/ vehiclePlate # <<>>
    THEN <<"R", "e", "f", "i", "l", "l", " ", "r", "e", "q", "u", "e", "s", "t", " ", "-", " ">>
         \o (IF vehicleName # <<>> THEN vehicleName ELSE vehiclePlate)
    ELSE <<"R", "e", "f", "i", "l", "l", " ", "r", "e", "q", "u", "e", "s", "t">>

\* The body POST /refills/book gives to the task: bodyLines.join("\n").
bookBody(serviceLocation, scheduledAt, vehicleName, vehiclePlate, vehicleColor) ==
    LET orNA(x) == IF x # <<>> THEN x ELSE <<"N", "/", "A">>
    IN  <<"N", "e", "w", " ", "r", "e", "f", "i", "l", "l", " ", "r", "e", "q", "u", "e", "s", "t", " ", "f", "r", "o", "m", " ", "i", "O", "S", " ", "a", "p", "p", ".">> \o <<"\n", "\n">>
        \o <<"S", "e", "r", "v", "i", "c", "e", " ", "l", "o", "c", "a", "t", "i", "o", "n", ":", " ">> \o serviceLocation \o <<"\n">>
        \o <<"S", "c", "h", "e", "d", "u", "l", "e", "d", " ", "f", "o", "r", ":", " ">> \o NumToString(scheduledAt) \o <<"\n", "\n">>
        \o <<"V", "e", "h", "i", "c", "l", "e", ":", " ">> \o orNA(vehicleName) \o <<"\n">>
        \o <<"P", "l", "a", "t", "e", ":", " ">> \o orNA(vehiclePlate) \o <<"\n">>
        \o <<"C", "o", "l", "o", "r", ":", " ">> \o orNA(vehicleColor)

\* POST /refills/book.  scheduledAt 0 stands for a missing time; fail names
\* the remote call that fails ("none", "search", "create", "associate") or
\* is "noid" when the remote store answers the creation without an id.
RefillsBook(email, serviceLocation, scheduledAt, vehicle, fail, remote) ==
    /\ rCreated < MaxBookings
    /\ LET trimmed == trim(email)
           contact == getContactByEmail(trimmed)
           vehicleName == trim(ToStringJS(Coalesce(Get(vehicle, KeyName), EmptyString)))
           vehiclePlate == trim(ToStringJS(Coalesce(Get(vehicle, KeyPlate), EmptyString)))
           vehicleColor == trim(ToStringJS(Coalesce(Get(vehicle, KeyColor), EmptyString)))
           taskId == Len(hTasks) + 1
           task(contacts) ==
               Task(taskId, Str(bookSubject(vehicleName, vehiclePlate)),
                    Str(<<"N", "O", "T", "_", "S", "T", "A", "R", "T", "E", "D">>),
                    Str(bookBody(trim(serviceLocation), scheduledAt,
                                 vehicleName, vehiclePlate, vehicleColor)),
                    scheduledAt, contacts)
           answer(status, error, id) ==
               rResp' = [handler |-> "book", status |-> status,
                         error |-> error, taskId |-> id]
       IN  IF trimmed = <<>> \/ trim(serviceLocation) = <<>> \/ scheduledAt = 0
           THEN /\ answer(400, "email, serviceLocation, and scheduledAt are required", 0)
                /\ UNCHANGED <<hTasks, rBooked, rCreated>>
           ELSE IF fail = "search"
           THEN /\ answer(errorStatus(remote), "server_error", 0)
                /\ UNCHANGED <<hTasks, rBooked, rCreated>>
           ELSE IF contact.id = 0
           THEN /\ answer(404, "contact_not_found", 0)
                /\ UNCHANGED <<hTasks, rBooked, rCreated>>
           ELSE IF fail = "create"
           THEN /\ answer(errorStatus(remote), "server_error", 0)
                /\ UNCHANGED <<hTasks, rBooked, rCreated>>
           ELSE IF fail = "noid"
           THEN /\ answer(500, "task_creation_failed", 0)
                /\ hTasks' = Append(hTasks, task({}))
                /\ rCreated' = rCreated + 1
                /\ UNCHANGED rBooked
           ELSE IF fail = "associate"
           THEN /\ answer(errorStatus(remote), "server_error", 0)
                /\ hTasks' = Append(hTasks, task({}))
                /\ rCreated' = rCreated + 1
                /\ UNCHANGED rBooked
           ELSE /\ answer(201, "", taskId)
                /\ hTasks' = Append(hTasks, task({contact.id}))
                /\ rCreated' = rCreated + 1
                /\ rBooked' = rBooked \cup
                       {[taskId |-> taskId, email |-> trimmed,
                         updated |-> FALSE, canceled |-> FALSE]}
    /\ hResp' = NoResponse
    /\ RefillsOnly

\* POST /refills/update.  taskId 0 stands for a missing taskId; the patch
\* of a task the remote store does not have fails with status 404.
RefillsUpdate(taskId, subject, body, cancel, remote) ==
    /\ LET isCancel == cancel \in {Bool(TRUE), Str(<<"t", "r", "u", "e">>),
                                   Num(1), Str(<<"1">>)}
           exists == \E j \in 1..Len(hTasks) : hTasks[j].id = taskId
           patch(t) ==
               [t EXCEPT
                  !.hs_task_subject = IF subject.t = "string" THEN subject ELSE @,
                  !.hs_task_body = IF body.t = "string" THEN body ELSE @,
                  !.hs_task_status =
                      IF isCancel
                      THEN Str(<<"D", "E", "F", "E", "R", "R", "E", "D">>)
                      ELSE @]
           answer(status, error) ==
               rResp' = [handler |-> "update", status |-> status,
                         error |-> error, taskId |-> taskId]
       IN  IF taskId = 0
           THEN answer(400, "taskId is required") /\ UNCHANGED <<hTasks, rBooked>>
           ELSE IF subject.t # "string" /\ body.t # "string" /\ ~isCancel
           THEN answer(400, "no_updatable_fields") /\ UNCHANGED <<hTasks, rBooked>>
           ELSE IF remote # 200 \/ ~exists
           THEN /\ answer(errorStatus(IF remote # 200 THEN remote ELSE 404),
                          "server_error")
                /\ UNCHANGED <<hTasks, rBooked>>
           ELSE /\ answer(200, "")
                /\ hTasks' = [j \in 1..Len(hTasks) |->
                                 IF hTasks[j].id = taskId THEN patch(hTasks[j])
                                 ELSE hTasks[j]]
                /\ rBooked' = {IF b.taskId = taskId
                               THEN [b EXCEPT !.updated = TRUE,
                                              !.canceled = isCancel]
                               ELSE b : b \in rBooked}
    /\ hResp' = NoResponse
    /\ UNCHANGED rCreated
    /\ RefillsOnly

\* Other clients of the remote store create count tasks of contact b that
\* are no refills.
OtherTasksCreated(count) ==
    /\ hTasks = <<>>
    /\ hTasks' = [j \in 1..count |->
                     Task(j, Str(<<"C", "a", "l", "l">>), Null, TaskBody, j, {2})]
    /\ hResp' = NoResponse
    /\ UNCHANGED refillVars
    /\ RefillsOnly

\* The requests of POST /refills/book: one per validation branch, and
\* complete ones without and with a vehicle.
BookRequests ==
    LET request(email, serviceLocation, scheduledAt, vehicle) ==
            [email |-> email, serviceLocation |-> serviceLocation,
             scheduledAt |-> scheduledAt, vehicle |-> vehicle]
        truck == MkObject(<<Prop(KeyName, Str(<<" ", "T">>)),
                            Prop(KeyPlate, Str(<<"P">>))>>)
    IN  { request(<<" ">>, <<"S">>, 7, truck),
          request(<<"a">>, <<>>, 7, truck),
          request(<<"a">>, <<"S">>, 0, truck),
          request(<<"z">>, <<"S">>, 7, truck),
          request(<<"a">>, <<"S">>, 7, truck),
          request(<<"a", " ">>, <<"S">>, 7, MkObject(<<>>)) }

\* The requests of POST /refills/update, without the taskId.
UpdateRequests ==
    LET request(subject, body, cancel) ==
            [subject |-> subject, body |-> body, cancel |-> cancel]
        prefixed == Str(<<"(", "0", ")", " ">> \o Refill)
    IN  { request(Undefined, Undefined, Undefined),
          request(Undefined, Undefined, Bool(FALSE)),
          request(prefixed, Undefined, Undefined),
          request(Undefined, Str(<<"x">>), Num(0)),
          request(Undefined, Undefined, Bool(TRUE)),
          request(prefixed, Undefined, Str(<<"1">>)) }

RefillsNext ==
    \/ \E b \in BookRequests, fail \in {"search", "create", "associate"},
          remote \in RemoteStatuses :
            RefillsBook(b.email, b.serviceLocation, b.scheduledAt, b.vehicle,
                        fail, remote)
    \/ \E b \in BookRequests, fail \in {"none", "noid"} :
            RefillsBook(b.email, b.serviceLocation, b.scheduledAt, b.vehicle,
                        fail, 0)
    \/ \E b \in rBooked, u \in UpdateRequests :
            RefillsUpdate(b.taskId, u.subject, u.body, u.cancel, 200)
    \/ \E taskId \in {0, 999} \cup {b.taskId : b \in rBooked},
          remote \in {200} \cup RemoteStatuses :
            RefillsUpdate(taskId, Undefined, Undefined, Bool(TRUE), remote)
    \/ \E count \in {1, ListLimit} : OtherTasksCreated(count)
    \/ \E email \in {<<"a">>, <<"b">>} : RefillsHistory(email, "none", 0)

(***************************************************************************)
(* Properties of GET /refills/history                                      *)
(***************************************************************************)

\* The task of the remote store with the given id.
TaskById(id) == hTasks[CHOOSE j \in 1..Len(hTasks) : hTasks[j].id = id]

\* The stored subject of a task (the empty string when it has none).
StoredSubject(t) == ToStringJS(OrElse(t.hs_task_subject, EmptyString))

\* The subject begins with "(0)", "(1)" or "(2)".
HasRecognizedPrefix(s) ==
    \E d \in {"0", "1", "2"} : startsWith(s, <<"(", d, ")">>)

\* The subject begins with "(d)" for a digit d.
HasDigitPrefix(s) ==
    Len(s) >= 3 /\ s[1] = "(" /\ IsDigit(s[2]) /\ s[3] = ")"

\* The label of a status code: 0 in progress, 1 completed, 2 canceled.
LabelOfCode(code) ==
    CASE code = 0 -> "In progress"
      [] code = 1 -> "Completed"
      [] code = 2 -> "Canceled"
      [] OTHER -> "none"

\* The status code that belongs to the HubSpot status of a task: 1 for
\* COMPLETED, 2 for CANCELED and DEFERRED, 0 otherwise, in any letter case.
CodeOfHubSpotStatus(t) ==
    LET st == toUpperCase(StoredSubject([hs_task_subject |-> t.hs_task_status]))
    IN  IF st = <<"C", "O", "M", "P", "L", "E", "T", "E", "D">> THEN 1
        ELSE IF st = <<"C", "A", "N", "C", "E", "L", "E", "D">> THEN 2
        ELSE IF st = <<"D", "E", "F", "E", "R", "R", "E", "D">> THEN 2
        ELSE 0

C5_StatusCodeRange ==
    \A i \in 1..Len(hResp.refills) :
        LET r == hResp.refills[i]
            raw == StoredSubject(TaskById(r.id))
        IN  /\ r.statusCode \in {0, 1, 2}
            /\ (HasDigitPrefix(raw) /\ ~HasRecognizedPrefix(raw))
                  => (r.statusCode = 0 /\ r.subject = raw)

\* C6: a stored subject "(N)" + optional white space + rest, N in {0,1,2},
\* rest any text, is reported with statusCode N, subject rest and the label
\* of N.
C6_PrefixMatch ==
    \A i \in 1..Len(hResp.refills) :
        LET r == hResp.refills[i]
            raw == StoredSubject(TaskById(r.id))
        IN  HasRecognizedPrefix(raw)
                => /\ r.statusCode = DigitValue(raw[2])
                   /\ r.subject = trimStart(SubSeq(raw, 4, Len(raw)))
                   /\ r.statusLabel = LabelOfCode(DigitValue(raw[2]))

\* C10: among the tasks associated with the contact, a task is returned if
\* and only if its subject, lower-cased, contains "refill" or its stored
\* subject begins with "(0)", "(1)" or "(2)".
C10_RefillClassification ==
    hResp.status = 200 =>
        \A j \in 1..Len(hTasks) :
            hResp.contactId \in hTasks[j].contacts =>
                ((\E i \in 1..Len(hResp.refills) :
                      hResp.refills[i].id = hTasks[j].id)
                 <=> (\/ includes(toLowerCase(StoredSubject(hTasks[j])),
                                  <<"r", "e", "f", "i", "l", "l">>)
                      \/ HasRecognizedPrefix(StoredSubject(hTasks[j]))))

(***************************************************************************)
(* Properties of the refill handlers                                       *)
(***************************************************************************)

\* The refills of the last history response that have the given id.
ReportedRefills(taskId) ==
    { hResp.refills[i] : i \in { j \in 1..Len(hResp.refills) :
                                    hResp.refills[j].id = taskId } }

\* C18: after the last POST /refills/update of a booked task succeeded with
\* a truthy cancel flag, a GET /refills/history that lists the task reports
\* statusCode 2 for it, whatever the stored subject of the task.
C18_CancelVisible ==
    \A b \in rBooked :
        (b.canceled /\ hResp.status = 200)
            => \A r \in ReportedRefills(b.taskId) : r.statusCode = 2

\* C21: every refill GET /refills/history returns for an email is a task
\* the remote store associates with the contact found for that email; a
\* task of other contacts only, or of none, is not returned, whatever its
\* subject.
C21_HistoryIsolation ==
    hResp.status = 200
        => \A i \in 1..Len(hResp.refills) :
               hResp.contactId \in TaskById(hResp.refills[i].id).contacts

\* A history that returns a refill of its contact while the remote store
\* holds a task of another contact only whose subject is that of a refill.
C21_Witness ==
    /\ hResp.status = 200
    /\ Len(hResp.refills) = 1
    /\ \E j \in 1..Len(hTasks) :
          /\ hResp.contactId \notin hTasks[j].contacts
          /\ hTasks[j].contacts # {}
          /\ isRefillTaskOfAnyContact(hTasks[j], hResp.contactId)

\* C19: after POST /refills/book answered 201 with a taskId for an email and
\* no update of the task followed, a GET /refills/history for that email
\* includes a refill with that id, statusCode 0 and the in-progress label,
\* however many other tasks the remote store holds.
C19_BookingVisible ==
    \A b \in rBooked :
        (/\ ~b.updated
         /\ hResp.status = 200
         /\ hResp.contactId = getContactByEmail(b.email).id)
            => \E r \in ReportedRefills(b.taskId) :
                   /\ r.statusCode = 0
                   /\ r.statusLabel = "In progress"

(***************************************************************************)
(* POST /contacts and POST /api/hubspot/contacts: concurrent requests, each *)
(* a search of the remote store followed by a patch or a create            *)
(***************************************************************************)

\* The number of upsert requests in flight together.
MaxContactRequests == 2

ContactsOnly ==
    UNCHANGED <<codecVars, historyVars, vehicleVars, syncVars, refillVars,
                pushVars, truckVars>>

\* The remote store holds the contact b; no request has arrived.
ContactsInit ==
    /\ kContacts = {[id |-> 1, email |-> <<"b">>]}
    /\ kReq = [q \in 1..MaxContactRequests |->
                 [pc |-> "idle", handler |-> "none", email |-> <<>>,
                  existing |-> 0, call |-> "none", existed |-> FALSE,
                  status |-> 0, action |-> "none"]]

\* The ids of the contacts of the remote store with the given email.
ContactIds(email) == {c.id : c \in {d \in kContacts : d.email = email}}

\* results[0] of the contact search: the id of the first contact with the
\* email, 0 when there is none.
findContactByEmail(email) ==
    IF ContactIds(email) = {} THEN 0
    ELSE CHOOSE id \in ContactIds(email) : \A other \in ContactIds(email) : id <= other

\* The handler starts: a request without email is answered 400, any other
\* goes on to the search.
ContactsRequest(q, handler, email) ==
    /\ kReq[q].pc = "idle"
    /\ kReq' = [kReq EXCEPT ![q] =
                  IF email = <<>>
                  THEN [@ EXCEPT !.pc = "done", !.handler = handler,
                                 !.email = email, !.status = 400,
                                 !.action = "error"]
                  ELSE [@ EXCEPT !.pc = "search", !.handler = handler,
                                 !.email = email]]
    /\ UNCHANGED kContacts
    /\ ContactsOnly

\* await getContactByEmail(email) / findContactByEmail(email); remote is 200
\* or the status of the failing call.
ContactsSearch(q, remote) ==
    /\ kReq[q].pc = "search"
    /\ kReq' = [kReq EXCEPT ![q] =
                  IF remote # 200
                  THEN [@ EXCEPT !.pc = "done", !.status = errorStatus(remote),
                                 !.action = "error", !.call = "search"]
                  ELSE [@ EXCEPT !.pc = "write", !.call = "search",
                                 !.existing = findContactByEmail(kReq[q].email)]]
    /\ UNCHANGED kContacts
    /\ ContactsOnly

\* hs.patch of the contact found by the search.
ContactsPatch(q, remote) ==
    /\ kReq[q].pc = "write"
    /\ kReq[q].existing # 0
    /\ kReq' = [kReq EXCEPT ![q] =
                  IF remote # 200
                  THEN [@ EXCEPT !.pc = "done", !.status = errorStatus(remote),
                                 !.action = "error", !.call = "patch",
                                 !.existed = ContactIds(kReq[q].email) # {}]
                  ELSE [@ EXCEPT !.pc = "done", !.status = 200,
                                 !.action = "updated", !.call = "patch",
                                 !.existed = ContactIds(kReq[q].email) # {}]]
    /\ UNCHANGED kContacts
    /\ ContactsOnly

\* hs.post of a new contact when the search found none.  The create of an
\* email the remote store already has is either accepted or refused with
\* status 409, as the remote store decides; existed records what the store
\* held when the create was issued.
ContactsCreate(q, remote, accepts) ==
    /\ kReq[q].pc = "write"
    /\ kReq[q].existing = 0
    /\ LET present == ContactIds(kReq[q].email) # {}
           failure == IF remote # 200 THEN remote
                      ELSE IF present /\ ~accepts THEN 409
                      ELSE 200
       IN  IF failure # 200
           THEN /\ kReq' = [kReq EXCEPT ![q] =
                              [@ EXCEPT !.pc = "done", !.action = "error",
                                        !.status = errorStatus(failure),
                                        !.call = "create",
                                        !.existed = present]]
                /\ UNCHANGED kContacts
           ELSE /\ kContacts' = kContacts \cup
                       {[id |-> Cardinality(kContacts) + 1,
                         email |-> kReq[q].email]}
                /\ kReq' = [kReq EXCEPT ![q] =
                              [@ EXCEPT !.pc = "done", !.action = "created",
                                        !.status = IF kReq[q].handler = "api"
                                                   THEN 201 ELSE 200,
                                        !.call = "create",
                                        !.existed = present]]
    /\ ContactsOnly

ContactsNext ==
    \/ \E q \in 1..MaxContactRequests, handler \in {"contacts", "api"},
          email \in {<<>>, <<"a">>, <<"b">>} :
            ContactsRequest(q, handler, email)
    \/ \E q \in 1..MaxContactRequests, remote \in {200} \cup RemoteStatuses :
            ContactsSearch(q, remote)
    \/ \E q \in 1..MaxContactRequests, remote \in {200} \cup RemoteStatuses :
            ContactsPatch(q, remote)
    \/ \E q \in 1..MaxContactRequests, remote \in {200} \cup RemoteStatuses,
          accepts \in BOOLEAN :
            ContactsCreate(q, remote, accepts)

(***************************************************************************)
(* Properties of the contact upserts                                       *)
(***************************************************************************)

\* C20: under any interleaving of the upsert requests, a create is issued
\* only while the remote store holds no contact with the email, the store
\* never holds two contacts with one email, and a request is answered
\* "updated" exactly when a contact with its email existed.
C20_UpsertKeepsEmailUnique ==
    /\ \A q \in 1..MaxContactRequests :
          kReq[q].call = "create" => ~kReq[q].existed
    /\ \A c, d \in kContacts : c.email = d.email => c.id = d.id
    /\ \A q \in 1..MaxContactRequests :
          (kReq[q].pc = "done" /\ kReq[q].action \in {"updated", "created"})
              => (kReq[q].action = "updated" <=> kReq[q].existed)

(***************************************************************************)
(* POST /push/register over the in-memory map deviceTokensByEmail          *)
(***************************************************************************)

\* The number of POST /push/register requests.
MaxRegistrations == 2

PushOnly ==
    UNCHANGED <<codecVars, historyVars, vehicleVars, syncVars, refillVars,
                contactVars, truckVars>>

\* new Map(): no email has a set.
PushInit ==
    /\ deviceTokensByEmail = [e \in {} |-> {}]
    /\ pPrev = [e \in {} |-> {}]
    /\ pLog = <<>>

\* A mutant of PushRegister: the set of the email is replaced by the token.
PushRegisterReplacing(emailValue, tokenValue) ==
    /\ Len(pLog) < MaxRegistrations
    /\ LET email == toLowerCase(trim(ToStringJS(Coalesce(emailValue, EmptyString))))
           fcmToken == trim(ToStringJS(Coalesce(tokenValue, EmptyString)))
           logged(status, tokenCount) ==
               pLog' = Append(pLog, [email |-> emailValue, fcmToken |-> tokenValue,
                                     status |-> status, tokenCount |-> tokenCount])
       IN  IF email = <<>> \/ fcmToken = <<>>
           THEN /\ logged(400, 0)
                /\ UNCHANGED deviceTokensByEmail
           ELSE /\ deviceTokensByEmail' =
                       [e \in DOMAIN deviceTokensByEmail \cup {email} |->
                           IF e = email THEN {fcmToken} ELSE deviceTokensByEmail[e]]
                /\ logged(200, 1)
    /\ pPrev' = deviceTokensByEmail
    /\ PushOnly

\* POST /push/register with req.body.email and req.body.fcmToken; the answer
\* is logged with the request.
PushRegister(emailValue, tokenValue) ==
    /\ Len(pLog) < MaxRegistrations
    /\ LET email == toLowerCase(trim(ToStringJS(Coalesce(emailValue, EmptyString))))
           fcmToken == trim(ToStringJS(Coalesce(tokenValue, EmptyString)))
           set == IF email \in DOMAIN deviceTokensByEmail
                  THEN deviceTokensByEmail[email] ELSE {}
           added == set \cup {fcmToken}
           logged(status, tokenCount) ==
               pLog' = Append(pLog, [email |-> emailValue, fcmToken |-> tokenValue,
                                     status |-> status, tokenCount |-> tokenCount])
       IN  IF email = <<>> \/ fcmToken = <<>>
           THEN /\ logged(400, 0)
                /\ UNCHANGED deviceTokensByEmail
           ELSE /\ deviceTokensByEmail' =
                       [e \in DOMAIN deviceTokensByEmail \cup {email} |->
                           IF e = email THEN added ELSE deviceTokensByEmail[e]]
                /\ logged(200, Cardinality(added))
    /\ pPrev' = deviceTokensByEmail
    /\ PushOnly

\* The values of req.body.email: missing, blank, and spellings of a and b.
PushEmails ==
    { Undefined, Null, Str(<<" ">>), Str(<<"a">>), Str(<<" ", "A", " ">>),
      Str(<<"b">>) }

\* The values of req.body.fcmToken: missing, blank, spellings of the tokens
\* t and T, and a number.
PushTokens ==
    { Undefined, Str(<<" ">>), Str(<<"t">>), Str(<<" ", "t", "\n">>),
      Str(<<"T">>), Num(7) }

PushNext ==
    \E emailValue \in PushEmails, tokenValue \in PushTokens :
        PushRegister(emailValue, tokenValue)

(***************************************************************************)
(* Properties of the push-token registry                                   *)
(***************************************************************************)

\* The email a request is registered under: trimmed and lower-cased.
RegisteredEmail(v) ==
    IF IsNullish(v) THEN <<>> ELSE toLowerCase(trim(ToStringJS(v)))

\* The token a request registers: trimmed.
RegisteredToken(v) == IF IsNullish(v) THEN <<>> ELSE trim(ToStringJS(v))

\* The requests that carry an email and a token.
AcceptedRegistrations ==
    { i \in 1..Len(pLog) : /\ RegisteredEmail(pLog[i].email) # <<>>
                           /\ RegisteredToken(pLog[i].fcmToken) # <<>> }

\* The tokens of the accepted requests of an email.
AcceptedTokens(email) ==
    { RegisteredToken(pLog[i].fcmToken) :
        i \in { j \in AcceptedRegistrations :
                   RegisteredEmail(pLog[j].email) = email } }

\* C22: after any sequence of POST /push/register requests the map holds,
\* for each trimmed lower-cased email, exactly the trimmed tokens accepted
\* for it; every set is non-empty, no token is ever removed, a request
\* answered 400 (empty email or token) changes nothing, re-registering a
\* stored token changes nothing, and tokenCount is the size of the set.
C22_PushRegistry ==
    /\ DOMAIN deviceTokensByEmail =
           { RegisteredEmail(pLog[i].email) : i \in AcceptedRegistrations }
    /\ \A e \in DOMAIN deviceTokensByEmail :
          /\ deviceTokensByEmail[e] = AcceptedTokens(e)
          /\ deviceTokensByEmail[e] # {}
    /\ \A e \in DOMAIN pPrev :
          /\ e \in DOMAIN deviceTokensByEmail
          /\ pPrev[e] \subseteq deviceTokensByEmail[e]
    /\ \A i \in 1..Len(pLog) :
          pLog[i].status = IF i \in AcceptedRegistrations THEN 200 ELSE 400
    /\ pLog # <<>> =>
          LET last == pLog[Len(pLog)]
              e == RegisteredEmail(last.email)
              t == RegisteredToken(last.fcmToken)
          IN  /\ last.status = 400 => deviceTokensByEmail = pPrev
              /\ (last.status = 200 /\ e \in DOMAIN pPrev /\ t \in pPrev[e])
                     => deviceTokensByEmail = pPrev
              /\ last.status = 200
                     => last.tokenCount = Cardinality(deviceTokensByEmail[e])

\* The token t registered for the email a, then registered again in another
\* spelling of both: the set of a still has the one token.
C22_Witness ==
    /\ Len(pLog) = 2
    /\ pLog[1].status = 200 /\ pLog[2].status = 200
    /\ pLog[1].email # pLog[2].email
    /\ pLog[1].fcmToken # pLog[2].fcmToken
    /\ pLog[2].tokenCount = 1
    /\ deviceTokensByEmail = pPrev
    /\ DOMAIN deviceTokensByEmail = {<<"a">>}

(***************************************************************************)
(* GET /truck/location and POST /truck/location over truckLocation         *)
(***************************************************************************)

\* The number of POST /truck/location requests.
MaxTruckPosts == 2

\* process.env.TRUCK_LOCATION_SECRET || 'dev-truck-secret'
TRUCK_LOCATION_SECRET ==
    <<"d", "e", "v", "-", "t", "r", "u", "c", "k", "-", "s", "e", "c", "r", "e", "t">>

KeyLat == <<"l", "a", "t">>
KeyLng == <<"l", "n", "g">>
KeyHeading == <<"h", "e", "a", "d", "i", "n", "g">>
KeySpeed == <<"s", "p", "e", "e", "d">>
KeyUpdatedAt == <<"u", "p", "d", "a", "t", "e", "d", "A", "t">>

TruckOnly ==
    UNCHANGED <<codecVars, historyVars, vehicleVars, syncVars, refillVars,
                contactVars, pushVars>>

\* A request and its answer.
TruckResponse(handler, secret, body, status, answer) ==
    [handler |-> handler, secret |-> secret, body |-> body, status |-> status,
     answer |-> answer]

\* let truckLocation = null
TruckInit ==
    /\ truckLocation = Null
    /\ tPrev = Null
    /\ tAccepted = Undefined
    /\ tCount = 0
    /\ tResp = TruckResponse("none", Undefined, Undefined, 0, Undefined)

\* GET /truck/location
TruckGet ==
    /\ tResp' = IF ~Truthy(truckLocation)
                THEN TruckResponse("get", Undefined, Undefined, 404, Undefined)
                ELSE TruckResponse("get", Undefined, Undefined, 200, truckLocation)
    /\ tPrev' = truckLocation
    /\ UNCHANGED <<truckLocation, tAccepted, tCount>>
    /\ TruckOnly

\* A mutant of TruckPost: the secret is not checked.
TruckPostUnchecked(secret, body, now) ==
    /\ tCount < MaxTruckPosts
    /\ tCount' = tCount + 1
    /\ tPrev' = truckLocation
    /\ LET fields == IF Truthy(body) THEN body ELSE Obj(<<>>)
           lat == Get(fields, KeyLat)
           lng == Get(fields, KeyLng)
           heading == Get(fields, KeyHeading)
           speed == Get(fields, KeySpeed)
       IN  IF lat.t # "number" \/ lng.t # "number"
           THEN /\ tResp' = TruckResponse("post", secret, body, 400, Undefined)
                /\ UNCHANGED <<truckLocation, tAccepted>>
           ELSE /\ truckLocation' =
                       Obj(<<Prop(KeyLat, lat), Prop(KeyLng, lng),
                             Prop(KeyHeading,
                                  IF heading.t = "number" THEN heading ELSE Null),
                             Prop(KeySpeed,
                                  IF speed.t = "number" THEN speed ELSE Null),
                             Prop(KeyUpdatedAt, Num(now))>>)
                /\ tAccepted' = body
                /\ tResp' = TruckResponse("post", secret, body, 200, Undefined)
    /\ TruckOnly

\* POST /truck/location with the x-truck-secret header and req.body;
\* updatedAt holds the time of the request in place of its ISO string.
TruckPost(secret, body, now) ==
    /\ tCount < MaxTruckPosts
    /\ tCount' = tCount + 1
    /\ tPrev' = truckLocation
    /\ LET fields == IF Truthy(body) THEN body ELSE Obj(<<>>)
           lat == Get(fields, KeyLat)
           lng == Get(fields, KeyLng)
           heading == Get(fields, KeyHeading)
           speed == Get(fields, KeySpeed)
       IN  IF ~Truthy(secret) \/ secret # Str(TRUCK_LOCATION_SECRET)
           THEN /\ tResp' = TruckResponse("post", secret, body, 401, Undefined)
                /\ UNCHANGED <<truckLocation, tAccepted>>
           ELSE IF lat.t # "number" \/ lng.t # "number"
           THEN /\ tResp' = TruckResponse("post", secret, body, 400, Undefined)
                /\ UNCHANGED <<truckLocation, tAccepted>>
           ELSE /\ truckLocation' =
                       Obj(<<Prop(KeyLat, lat), Prop(KeyLng, lng),
                             Prop(KeyHeading,
                                  IF heading.t = "number" THEN heading ELSE Null),
                             Prop(KeySpeed,
                                  IF speed.t = "number" THEN speed ELSE Null),
                             Prop(KeyUpdatedAt, Num(now))>>)
                /\ tAccepted' = body
                /\ tResp' = TruckResponse("post", secret, body, 200, Undefined)
    /\ TruckOnly

\* The values of the x-truck-secret header: absent, empty, wrong, right.
TruckSecrets ==
    { Undefined, EmptyString, Str(<<"x">>), Str(TRUCK_LOCATION_SECRET) }

\* The values of req.body: absent, and objects with lat, lng, heading and
\* speed absent, numbers (0 among them) or of another type.
TruckBodies ==
    { Undefined } \cup
    { MkObject(<<Prop(KeyLat, lat), Prop(KeyLng, lng),
                 Prop(KeyHeading, heading), Prop(KeySpeed, speed)>>) :
        lat \in {Undefined, Num(0), Str(<<"5">>)},
        lng \in {Num(3), Null},
        heading \in {Undefined, Num(9), Str(<<"N">>)},
        speed \in {Undefined, Num(0)} }

TruckNext ==
    \/ \E secret \in TruckSecrets, body \in TruckBodies, now \in NowValues :
          TruckPost(secret, body, now)
    \/ TruckGet

(***************************************************************************)
(* Properties of the truck location                                        *)
(***************************************************************************)

\* The value GET /truck/location reports for a field of an accepted body:
\* the field when it is a number, null otherwise.
NumberOrNull(body, key) ==
    IF Truthy(body) /\ Get(body, key).t = "number" THEN Get(body, key) ELSE Null

\* C23: truckLocation is replaced only by a POST /truck/location whose
\* x-truck-secret header equals TRUCK_LOCATION_SECRET and whose lat and lng
\* are numbers; a POST answered 401 or 400 and every GET leave it unchanged;
\* GET answers 404 until the first accepted POST and afterwards the lat, lng,
\* heading and speed of the last accepted POST, heading and speed null when
\* not numbers.
C23_TruckLocation ==
    /\ truckLocation # tPrev
          => /\ tResp.handler = "post"
             /\ tResp.status = 200
             /\ tResp.secret = Str(TRUCK_LOCATION_SECRET)
             /\ Truthy(tResp.body)
             /\ Get(tResp.body, KeyLat).t = "number"
             /\ Get(tResp.body, KeyLng).t = "number"
    /\ (tResp.handler = "get" \/ tResp.status \in {400, 401})
          => truckLocation = tPrev
    /\ tResp.handler = "get"
          => IF tAccepted = Undefined
             THEN tResp.status = 404
             ELSE /\ tResp.status = 200
                  /\ Get(tResp.answer, KeyLat) = Get(tAccepted, KeyLat)
                  /\ Get(tResp.answer, KeyLng) = Get(tAccepted, KeyLng)
                  /\ Get(tResp.answer, KeyLat).t = "number"
                  /\ Get(tResp.answer, KeyLng).t = "number"
                  /\ Get(tResp.answer, KeyHeading) =
                         NumberOrNull(tAccepted, KeyHeading)
                  /\ Get(tResp.answer, KeySpeed) =
                         NumberOrNull(tAccepted, KeySpeed)

\* A GET after two POSTs: it reports lat 0 of the last accepted POST with a
\* null heading, the heading sent not being a number.
C23_Witness ==
    /\ tCount = 2
    /\ tResp.handler = "get"
    /\ tResp.status = 200
    /\ Get(tResp.answer, KeyLat) = Num(0)
    /\ Get(tResp.answer, KeyHeading) = Null
    /\ Truthy(tAccepted)
    /\ Get(tAccepted, KeyHeading) = Str(<<"N">>)
    /\ Get(tAccepted, KeySpeed) = Num(0)

(***************************************************************************)
(* Specifications                                                          *)
(***************************************************************************)

Init ==
    /\ CodecInit /\ HistoryInit /\ VehiclesInit /\ SyncInit /\ RefillsInit
    /\ ContactsInit /\ PushInit /\ TruckInit

\* The codec over one note.
SpecCodec == Init /\ [][CodecNext]_vars

\* GET /refills/history over the tasks of the remote store.
SpecHistory == Init /\ [][HistoryNext]_vars

\* The vehicle handlers over the notes of the remote store.
Spec == Init /\ [][VehiclesNext]_vars

\* The vehicle sync handlers, one remote call per step.
SpecSync == Init /\ [][SyncNext]_vars

\* Booking, updating and listing refills.
SpecRefills == Init /\ [][RefillsNext]_vars

\* The contact upserts, one remote call per step.
SpecContacts == Init /\ [][ContactsNext]_vars

\* The push-token registry.
SpecPush == Init /\ [][PushNext]_vars

\* The truck location handlers.
SpecTruck == Init /\ [][TruckNext]_vars

=============================================================================
